---- MODULE Spec2Model ----
(***************************************************************************)
(* A model of dvrpc-node: the verifying JSON-RPC gateway.                  *)
(*                                                                         *)
(*  - src/src/proof/mod.rs : the RLP decoder, the hex-prefix codec, the    *)
(*    Merkle Patricia Trie walker and the proof orchestrator               *)
(*  - src/src/rpc/handlers.rs, src/src/main.rs, src/src/upstream.rs :      *)
(*    the request handlers, startup and the untrusted upstream             *)
(*                                                                         *)
(* Byte strings are sequences over 0..255.  A Result<T> is a record with   *)
(* a field st: "ok" carries the value, "err" is an eyre error (bail!).     *)
(* An Option is a record with st "some" / "none".                          *)
(***************************************************************************)
EXTENDS Integers, Sequences, FiniteSets, TLC

VARIABLES
    winput,     \* walker specification: the arguments (root, key, proof)
    walk,       \* walker specification: the loop state of verify_mpt_proof
    boot,       \* gateway: position of main ("boot" / "serving")
    enabled,    \* gateway: config.consensus.enabled
    consensus,  \* gateway: AppState.consensus is Some ("some") or None ("none")
    head,       \* gateway: the light client's current authenticated head
    req,        \* gateway: the request in flight and the handler's locals
    resp,       \* gateway: the JSON value the handler returned
    vinput,     \* orchestrator specification: (state_root, proof)
    vout,       \* orchestrator specification: the operation applied and its result
    cinput,     \* codec specification: the byte string handed to a decoder
    cout,       \* codec specification: the decoder applied and its result
    overflow_checks  \* the build: TRUE when integer overflow panics (rustc's
                     \* overflow-checks, the default of a debug build), FALSE
                     \* when it wraps (the default of a release build)

walkVars == <<winput, walk>>
gatewayVars == <<boot, enabled, consensus, head, req, resp>>
orchVars == <<vinput, vout>>
codecVars == <<cinput, cout>>
vars == <<winput, walk, boot, enabled, consensus, head, req, resp, vinput, vout,
          cinput, cout, overflow_checks>>

(***************************************************************************)
(* Bytes                                                                   *)
(***************************************************************************)

Byte == 0..255

\* n copies of the byte b
Rep(b, n) == [k \in 1..n |-> b]

\* data[a..b] of Rust (0-based, b exclusive)
Slice(data, a, b) == SubSeq(data, a + 1, b)

Min(a, b) == IF a < b THEN a ELSE b

(***************************************************************************)
(* Keccak-256.  The two digests the source pins down are kept byte-exact;  *)
(* every other input gets a 32-byte digest folded from its bytes, which is *)
(* collision-free on the byte strings of this model (checked by            *)
(* KeccakInjective below).                                                 *)
(***************************************************************************)

EMPTY_CODE_HASH ==
    << 197, 210, 70, 1, 134, 247, 35, 60, 146, 126, 125, 178, 220, 199, 3, 192,
       229, 0, 182, 83, 202, 130, 39, 59, 123, 250, 216, 4, 93, 133, 164, 112 >>

EMPTY_ROOT_HASH ==
    << 86, 232, 31, 23, 27, 204, 85, 166, 255, 131, 69, 230, 146, 192, 248, 110,
       91, 72, 224, 27, 153, 108, 173, 192, 1, 98, 47, 181, 227, 99, 180, 33 >>

\* two 16-bit sums of data[lo..hi], folded pairwise (a tree of depth log n)
RECURSIVE DigestFold(_, _, _)
DigestFold(data, lo, hi) ==
    IF lo = hi THEN << (data[lo] * 251 + 7 * lo + 1) % 65521,
                       (data[lo] * 241 + 3 * lo + 7) % 65519 >>
    ELSE LET mid == (lo + hi) \div 2
             l == DigestFold(data, lo, mid)
             r == DigestFold(data, mid + 1, hi)
         IN  << (l[1] * 31 + r[1] * 17 + 5) % 65521,
                (l[2] * 29 + r[2] * 13 + 11) % 65519 >>

keccak256(data) ==
    IF data = <<>> THEN EMPTY_CODE_HASH
    ELSE IF data = <<128>> THEN EMPTY_ROOT_HASH
    ELSE LET d == DigestFold(data, 1, Len(data))
         IN  << d[1] \div 256, d[1] % 256, d[2] \div 256, d[2] % 256,
                Len(data) % 256 >> \o Rep(90, 27)

(***************************************************************************)
(* Hex-prefix paths and nibbles (proof/mod.rs 348-383)                     *)
(***************************************************************************)

\* bytes_to_nibbles: every byte expands to (high, low)
bytes_to_nibbles(bytes) ==
    [k \in 1..(2 * Len(bytes)) |->
        IF k % 2 = 1 THEN bytes[(k + 1) \div 2] \div 16
                     ELSE bytes[k \div 2] % 16]

\* decode_hp_path: (nibbles, is_leaf); it has no error path
decode_hp_path(encoded) ==
    IF encoded = <<>> THEN [nibbles |-> <<>>, is_leaf |-> FALSE]
    ELSE LET first_nibble == encoded[1] \div 16
             is_leaf == first_nibble >= 2
             is_odd  == first_nibble % 2 = 1
             rest    == bytes_to_nibbles(Tail(encoded))
         IN  [nibbles |-> IF is_odd THEN <<encoded[1] % 16>> \o rest ELSE rest,
              is_leaf |-> is_leaf]

(***************************************************************************)
(* RLP decoder (proof/mod.rs 385-527)                                      *)
(***************************************************************************)

Err(msg) == [st |-> "err", msg |-> msg]

\* size_of::<usize>() on the 64-bit targets the node is built for
USIZE_BYTES == 8

\* A usize larger than any slice of the model is kept as this one value:
\* every length of the model is far below it, so every comparison against
\* a slice length has the outcome the exact value has.
USIZE_BIG == 16777216

RECURSIVE BeFold(_, _, _)
BeFold(bytes, k, acc) ==
    IF k > Len(bytes) THEN acc
    ELSE BeFold(bytes, k + 1,
                IF acc > (USIZE_BIG - bytes[k]) \div 256 THEN USIZE_BIG
                ELSE acc * 256 + bytes[k])

\* bytes_to_usize: big-endian bytes to usize, at most 8 bytes.  over(k) tells
\* whether val + k exceeds usize::MAX (k <= 9): all eight bytes are used, the
\* first seven are 0xff and the last one leaves no room for k; wrapped(k) is
\* then val + k modulo 2^64.
bytes_to_usize(bytes) ==
    IF Len(bytes) > USIZE_BYTES THEN Err("Length too large for usize")
    ELSE [st |-> "ok", val |-> BeFold(bytes, 1, 0),
          over |-> [k \in 0..9 |->
                      /\ Len(bytes) = USIZE_BYTES
                      /\ \A j \in 1..(USIZE_BYTES - 1) : bytes[j] = 255
                      /\ bytes[USIZE_BYTES] + k > 255],
          wrapped |-> [k \in 0..9 |->
                      IF Len(bytes) = USIZE_BYTES
                      THEN (bytes[USIZE_BYTES] + k) % 256 ELSE 0]]

\* 1 + len_bytes + len past usize::MAX: an overflow panic in a build with
\* overflow checks; without them the sum wraps to a value below
\* 1 + len_bytes, the bounds check passes and the function goes on with the
\* wrapped sum as the end of the payload.
Panic(msg) == [st |-> "panic", msg |-> msg]

\* a loop that never exits
Hang(msg) == [st |-> "hang", msg |-> msg]

\* the long forms (0xb8-0xbf, 0xf8-0xff) after the length bytes were read:
\* l is what bytes_to_usize returned.  The result names the payload
\* data[1 + len_bytes..total].
RlpLong(data, len_bytes, l, msg) ==
    IF l.st # "ok" THEN l
    ELSE IF l.over[1 + len_bytes] THEN
        IF overflow_checks THEN Panic("attempt to add with overflow")
        ELSE [st |-> "ok", start |-> 1 + len_bytes, total |-> l.wrapped[1 + len_bytes]]
    ELSE IF Len(data) < 1 + len_bytes + l.val THEN Err(msg)
    ELSE [st |-> "ok", start |-> 1 + len_bytes, total |-> 1 + len_bytes + l.val]

\* the prefix and the length bytes of data: where the payload lies
RlpExtent(data, strMsg, listMsg) ==
    IF data[1] <= 127 THEN [st |-> "ok", start |-> 0, total |-> 1]
    ELSE IF data[1] <= 183 THEN
        IF Len(data) < 1 + (data[1] - 128) THEN Err(strMsg)
        ELSE [st |-> "ok", start |-> 1, total |-> 1 + (data[1] - 128)]
    ELSE IF data[1] <= 191 THEN
        IF Len(data) < 1 + (data[1] - 183) THEN Err("RLP length truncated")
        ELSE RlpLong(data, data[1] - 183,
                     bytes_to_usize(Slice(data, 1, 1 + (data[1] - 183))), strMsg)
    ELSE IF data[1] <= 247 THEN
        IF Len(data) < 1 + (data[1] - 192) THEN Err("RLP list truncated")
        ELSE [st |-> "ok", start |-> 1, total |-> 1 + (data[1] - 192)]
    ELSE
        IF Len(data) < 1 + (data[1] - 247) THEN Err("RLP length truncated")
        ELSE RlpLong(data, data[1] - 247,
                     bytes_to_usize(Slice(data, 1, 1 + (data[1] - 247))), listMsg)

\* decode_rlp_length, given the extent e: (content, total_length); the
\* content of every form is the payload
RlpLengthOf(data, e) ==
    IF e.st # "ok" THEN e
    ELSE IF e.start > e.total THEN Panic("slice index starts past its end")
    ELSE [st |-> "ok", content |-> Slice(data, e.start, e.total), total |-> e.total]

\* decode_rlp_length: (content, total_length)
decode_rlp_length(data) ==
    IF data = <<>> THEN Err("Empty RLP data")
    ELSE RlpLengthOf(data, RlpExtent(data, "RLP string truncated", "RLP list truncated"))

\* decode_rlp_item, given the extent e: a string item is its payload, a list
\* item (prefix 0xc0 and above) is returned whole, header included
RlpItemOf(data, e) ==
    IF e.st # "ok" THEN e
    ELSE IF data[1] <= 191 /\ e.start > e.total
         THEN Panic("slice index starts past its end")
    ELSE [st |-> "ok",
          item |-> IF data[1] <= 127 THEN <<data[1]>>
                   ELSE IF data[1] <= 191 THEN Slice(data, e.start, e.total)
                   ELSE Slice(data, 0, e.total),
          len |-> e.total]

\* decode_rlp_item: (content, total_bytes_consumed)
decode_rlp_item(data) ==
    IF data = <<>> THEN Err("Empty RLP item")
    ELSE RlpItemOf(data, RlpExtent(data, "RLP item truncated", "RLP list truncated"))

\* the while loop of decode_rlp_list over list_data, from offset; RlpItemsOf
\* is the loop body after decode_rlp_item returned r.  An item of length 0
\* leaves offset where it is: the loop pushes that item for ever.
RECURSIVE RlpItems(_, _, _)
RECURSIVE RlpItemsOf(_, _, _, _)
RlpItemsOf(list_data, offset, items, r) ==
    IF r.st # "ok" THEN r
    ELSE IF r.len = 0 THEN Hang("offset does not advance")
    ELSE RlpItems(list_data, offset + r.len, Append(items, r.item))

RlpItems(list_data, offset, items) ==
    IF offset >= Len(list_data) THEN [st |-> "ok", items |-> items]
    ELSE RlpItemsOf(list_data, offset, items,
                    decode_rlp_item(Slice(list_data, offset, Len(list_data))))

\* decode_rlp_list after decode_rlp_length returned h
RlpListOf(h) ==
    IF h.st # "ok" THEN h ELSE RlpItems(h.content, 0, <<>>)

\* decode_rlp_list: the items of an RLP list
decode_rlp_list(data) ==
    IF data = <<>> THEN [st |-> "ok", items |-> <<>>]
    ELSE RlpListOf(decode_rlp_length(data))

(***************************************************************************)
(* The MPT walker (proof/mod.rs 210-346).  The loop state is a record:     *)
(*   status        "run" while the for loop goes on; "some" / "none" are   *)
(*                 Ok(Some(value)) / Ok(None); "err" is a bail!;           *)
(*                 "panic" is a panic inside the decoder, "hang" a loop of *)
(*                 the decoder that never exits                            *)
(*   i             the number of proof nodes consumed                      *)
(*   key_index     the nibble cursor                                       *)
(*   expected_hash the hash the next node is checked against               *)
(*   value         the bytes returned with Some                            *)
(*   refs          (history) refs[j] is the child reference the j-th node  *)
(*                 holds at the selected position, when the walk went on   *)
(*                 past that node                                          *)
(***************************************************************************)

WalkEnd(st, status, value, msg) ==
    [st EXCEPT !.status = status, !.value = value, !.msg = msg]

\* process_leaf_extension after decode_hp_path returned hp
LeafExtensionOf(items, hp, remaining_key) ==
    IF hp.is_leaf THEN
        IF hp.nibbles = remaining_key
        THEN [st |-> "some", value |-> items[2]]
        ELSE [st |-> "none"]
    ELSE Err("Incomplete proof - extension node at end")

\* process_leaf_extension: a 2-item node met inline; only a leaf is handled
process_leaf_extension(items, key_nibbles, key_index) ==
    IF Len(items) # 2 THEN Err("Invalid embedded node")
    ELSE LeafExtensionOf(items, decode_hp_path(items[1]),
                         Slice(key_nibbles, key_index, Len(key_nibbles)))

\* the walk ends with what process_leaf_extension returned, r
WalkInlineEnd(st, r) ==
    IF r.st = "some" THEN WalkEnd(st, "some", r.value, "")
    ELSE IF r.st = "none" THEN WalkEnd(st, "none", <<>>, "")
    ELSE WalkEnd(st, r.st, <<>>, r.msg)

\* an inline node whose bytes decode_rlp_list turned into e
WalkInlineOf(st, e) ==
    IF e.st # "ok" THEN WalkEnd(st, e.st, <<>>, e.msg)
    ELSE WalkInlineEnd(st, process_leaf_extension(e.items, st.key_nibbles, st.key_index))

\* let embedded_items = decode_rlp_list(..)?; return process_leaf_extension(..)
WalkInline(st, embedded) == WalkInlineOf(st, decode_rlp_list(embedded))

\* the walk goes on to the next proof entry, expecting hash
WalkOn(st, hash, ref) ==
    [st EXCEPT !.expected_hash = hash, !.refs = Append(@, ref)]

\* the 17 => arm: a branch node (items are 0-based in the source)
MptBranch(st, proof, items) ==
    IF st.key_index >= Len(st.key_nibbles) THEN
        IF items[17] = <<>> THEN WalkEnd(st, "none", <<>>, "")
        ELSE WalkEnd(st, "some", items[17], "")
    ELSE
        LET nibble == st.key_nibbles[st.key_index + 1]
            child  == items[nibble + 1]
            st1    == [st EXCEPT !.key_index = @ + 1]
        IN  IF child = <<>> THEN WalkEnd(st1, "none", <<>>, "")
            ELSE IF Len(child) = 32 THEN WalkOn(st1, child, child)
            ELSE IF Len(child) < 32 THEN
                \* st.i counts this node already: i + 1 < proof.len()
                IF st.i < Len(proof)
                THEN WalkOn(st1, keccak256(proof[st.i + 1]), child)
                ELSE WalkInline(st1, child)
            ELSE WalkOn(st1, st1.expected_hash, child)

\* MptLeafExtOf without lines 297-302: an extension moves the cursor by the
\* length of its path whatever the remaining key is
MptLeafExtOfUnchecked(st, items, hp, remaining_key) ==
    IF hp.is_leaf THEN
        IF hp.nibbles # remaining_key THEN WalkEnd(st, "none", <<>>, "")
        ELSE WalkEnd(st, "some", items[2], "")
    ELSE
        IF Len(items[2]) = 32
        THEN WalkOn([st EXCEPT !.key_index = @ + Len(hp.nibbles)], items[2], items[2])
        ELSE WalkInline([st EXCEPT !.key_index = @ + Len(hp.nibbles)], items[2])

\* the 2 => arm after decode_hp_path returned hp
MptLeafExtOf(st, items, hp, remaining_key) ==
    IF hp.is_leaf THEN
        IF hp.nibbles # remaining_key THEN WalkEnd(st, "none", <<>>, "")
        ELSE WalkEnd(st, "some", items[2], "")
    ELSE
        IF Len(remaining_key) < Len(hp.nibbles) THEN WalkEnd(st, "none", <<>>, "")
        ELSE IF Slice(remaining_key, 0, Len(hp.nibbles)) # hp.nibbles
             THEN WalkEnd(st, "none", <<>>, "")
        ELSE IF Len(items[2]) = 32
             THEN WalkOn([st EXCEPT !.key_index = @ + Len(hp.nibbles)], items[2], items[2])
        ELSE WalkInline([st EXCEPT !.key_index = @ + Len(hp.nibbles)], items[2])

\* the 2 => arm: a leaf or an extension node
MptLeafExt(st, items) ==
    MptLeafExtOf(st, items, decode_hp_path(items[1]),
                 Slice(st.key_nibbles, st.key_index, Len(st.key_nibbles)))

\* the hash checks at the top of the loop body, for the node at 0-based index i
MptHashOk(node, i, expected_hash) ==
    LET node_hash == keccak256(node) IN
    /\ ~(node_hash # expected_hash /\ Len(node) >= 32)
    /\ ~(Len(node) < 32 /\ i > 0 /\ node_hash # expected_hash)

\* match items.len() on what decode_rlp_list(node) returned, d
MptDispatch(st, proof, d) ==
    IF d.st # "ok" THEN WalkEnd(st, d.st, <<>>, d.msg)
    ELSE IF Len(d.items) = 17 THEN MptBranch(st, proof, d.items)
    ELSE IF Len(d.items) = 2 THEN MptLeafExt(st, d.items)
    ELSE WalkEnd(st, "err", <<>>, "Invalid node")

\* MptIter without line 321: an exhausted proof reads as an absent key
MptIterExhaustedIsAbsent(st, proof) ==
    IF st.i >= Len(proof) THEN WalkEnd(st, "none", <<>>, "")
    ELSE IF ~MptHashOk(proof[st.i + 1], st.i, st.expected_hash)
         THEN WalkEnd([st EXCEPT !.i = @ + 1], "err", <<>>, "Node hash mismatch")
    ELSE MptDispatch([st EXCEPT !.i = @ + 1], proof, decode_rlp_list(proof[st.i + 1]))

\* one iteration of the for loop of verify_mpt_proof, or its end
MptIter(st, proof) ==
    IF st.i >= Len(proof) THEN
        WalkEnd(st, "err", <<>>, "Incomplete proof - didn't reach a leaf")
    ELSE IF ~MptHashOk(proof[st.i + 1], st.i, st.expected_hash)
         THEN WalkEnd([st EXCEPT !.i = @ + 1], "err", <<>>, "Node hash mismatch")
    ELSE MptDispatch([st EXCEPT !.i = @ + 1], proof, decode_rlp_list(proof[st.i + 1]))

\* MptStart without the root comparison of line 215: an empty proof always
\* reads as an absent key
MptStartAnyRoot(root, key, proof) ==
    LET st0 == [status |-> "run", i |-> 0, key_index |-> 0,
                key_nibbles |-> bytes_to_nibbles(key),
                expected_hash |-> root, value |-> <<>>, msg |-> "",
                refs |-> <<>>]
    IN  IF proof = <<>> THEN WalkEnd(st0, "none", <<>>, "") ELSE st0

\* verify_mpt_proof up to the for loop: the empty proof, the nibbles, the cursor
MptStart(root, key, proof) ==
    LET st0 == [status |-> "run", i |-> 0, key_index |-> 0,
                key_nibbles |-> bytes_to_nibbles(key),
                expected_hash |-> root, value |-> <<>>, msg |-> "",
                refs |-> <<>>]
    IN  IF proof = <<>> THEN
            IF root = EMPTY_ROOT_HASH THEN WalkEnd(st0, "none", <<>>, "")
            ELSE WalkEnd(st0, "err", <<>>, "Empty proof for non-empty root")
        ELSE st0

RECURSIVE MptLoop(_, _)
MptLoop(st, proof) ==
    IF st.status # "run" THEN st ELSE MptLoop(MptIter(st, proof), proof)

\* verify_mpt_proof(root, key, proof): the final loop state
verify_mpt_proof(root, key, proof) == MptLoop(MptStart(root, key, proof), proof)

(***************************************************************************)
(* Integers.  A U256 or U64 is kept as its minimal big-endian bytes (no    *)
(* leading zero; zero is the empty string), so equality of numbers is      *)
(* equality of byte strings and no width is lost.                          *)
(***************************************************************************)

U256_ZERO == <<>>

StripZeros(b) ==
    LET nz == {k \in 1..Len(b) : b[k] # 0} IN
    IF nz = {} THEN <<>>
    ELSE SubSeq(b, CHOOSE k \in nz : \A j \in nz : k <= j, Len(b))

\* U256::from_be_slice: panics when the value does not fit 32 bytes
U256_from_be_slice(b) ==
    IF Len(StripZeros(b)) > 32 THEN Panic("value too large for U256")
    ELSE [st |-> "ok", val |-> StripZeros(b)]

(***************************************************************************)
(* The account record (proof/mod.rs 14-21, 71).  AccountState derives      *)
(* RlpDecodable: a list header, then u64, U256, B256, B256, and the        *)
(* payload consumed exactly.                                               *)
(***************************************************************************)

\* alloy_rlp Header::decode: (list, payload_length) and the bytes after the
\* header; a single byte below 0x80 is its own payload
RlpHeader(buf) ==
    IF buf = <<>> THEN Err("InputTooShort")
    ELSE LET b == buf[1] IN
      IF b < 128 THEN [st |-> "ok", list |-> FALSE, payload_length |-> 1, rest |-> buf]
      ELSE IF b < 184 \/ (b >= 192 /\ b < 248) THEN
          LET len  == IF b < 184 THEN b - 128 ELSE b - 192
              rest == Tail(buf)
          IN  IF b < 184 /\ len = 1 /\ rest = <<>> THEN Err("InputTooShort")
              ELSE IF b < 184 /\ len = 1 /\ rest[1] < 128 THEN Err("NonCanonicalSingleByte")
              ELSE IF Len(rest) < len THEN Err("InputTooShort")
              ELSE [st |-> "ok", list |-> b >= 192, payload_length |-> len, rest |-> rest]
      ELSE
          LET len_of_len == IF b < 192 THEN b - 183 ELSE b - 247
              rest == Tail(buf)
          IN  IF Len(rest) < len_of_len THEN Err("InputTooShort")
              ELSE IF rest[1] = 0 THEN Err("LeadingZero")
              ELSE LET len   == BeFold(Slice(rest, 0, len_of_len), 1, 0)
                       rest2 == Slice(rest, len_of_len, Len(rest))
                   IN  IF len < 56 THEN Err("NonCanonicalSize")
                       ELSE IF Len(rest2) < len THEN Err("InputTooShort")
                       ELSE [st |-> "ok", list |-> b >= 192,
                             payload_length |-> len, rest |-> rest2]

\* Header::decode_bytes on the header h: the payload of a string item and
\* the bytes after it
RlpBytesOf(h) ==
    IF h.st # "ok" THEN h
    ELSE IF h.list THEN Err("UnexpectedList")
    ELSE [st |-> "ok", bytes |-> Slice(h.rest, 0, h.payload_length),
          rest |-> Slice(h.rest, h.payload_length, Len(h.rest))]

RlpBytes(buf) == RlpBytesOf(RlpHeader(buf))

\* an unsigned integer of at most size bytes: no leading zero, not too wide
RlpUintOf(r, size) ==
    IF r.st # "ok" THEN r
    ELSE IF Len(r.bytes) > size THEN Err("Overflow")
    ELSE IF r.bytes # <<>> /\ r.bytes[1] = 0 THEN Err("LeadingZero")
    ELSE [st |-> "ok", val |-> r.bytes, rest |-> r.rest]

RlpUint(buf, size) == RlpUintOf(RlpBytes(buf), size)

\* a B256: a string of exactly 32 bytes
RlpB256Of(r) ==
    IF r.st # "ok" THEN r
    ELSE IF Len(r.bytes) # 32 THEN Err("UnexpectedLength")
    ELSE [st |-> "ok", val |-> r.bytes, rest |-> r.rest]

RlpB256(buf) == RlpB256Of(RlpBytes(buf))

\* the fields of AccountState in order; h is the list header, n, b, s, c
\* what the decoders of nonce, balance, storage_root, code_hash returned
AccountEnd(h, n, b, s, c) ==
    IF c.st # "ok" THEN c
    ELSE IF Len(h.rest) - Len(c.rest) # h.payload_length THEN Err("ListLengthMismatch")
    ELSE [st |-> "ok", nonce |-> n.val, balance |-> b.val,
          storage_root |-> s.val, code_hash |-> c.val]

AccountCodeHash(h, n, b, s) ==
    IF s.st # "ok" THEN s ELSE AccountEnd(h, n, b, s, RlpB256(s.rest))

AccountStorageRoot(h, n, b) ==
    IF b.st # "ok" THEN b ELSE AccountCodeHash(h, n, b, RlpB256(b.rest))

AccountBalance(h, n) ==
    IF n.st # "ok" THEN n ELSE AccountStorageRoot(h, n, RlpUint(n.rest, 32))

AccountNonce(h) ==
    IF h.st # "ok" THEN h
    ELSE IF ~h.list THEN Err("UnexpectedString")
    ELSE AccountBalance(h, RlpUint(h.rest, 8))

\* AccountState::decode(&mut value)
AccountState_decode(value) == AccountNonce(RlpHeader(value))

(***************************************************************************)
(* The proof orchestrator (proof/mod.rs 35-191, 529-556).  A ProofData is  *)
(* a record (types.rs 18-34); a Result<bool> is [st |-> "ok", val |-> b].  *)
(***************************************************************************)

OkBool(b) == [st |-> "ok", val |-> b]

\* lines 52-68: the walk proved the account absent
AccountAbsent(proof) ==
    OkBool(/\ proof.balance = U256_ZERO
           /\ proof.nonce = U256_ZERO
           /\ proof.code_hash = EMPTY_CODE_HASH
           /\ proof.storage_hash = EMPTY_ROOT_HASH)

\* AccountMatch without the comparison of the code hash
AccountMatchSkipsCodeHash(proof, account) ==
    IF account.st # "ok" THEN OkBool(FALSE)
    ELSE IF account.nonce # proof.nonce THEN OkBool(FALSE)
    ELSE IF account.balance # proof.balance THEN OkBool(FALSE)
    ELSE IF account.storage_root # proof.storage_hash THEN OkBool(FALSE)
    ELSE OkBool(TRUE)

\* lines 71-118: account is what AccountState::decode returned
AccountMatch(proof, account) ==
    IF account.st # "ok" THEN OkBool(FALSE)
    ELSE IF account.nonce # proof.nonce THEN OkBool(FALSE)
    ELSE IF account.balance # proof.balance THEN OkBool(FALSE)
    ELSE IF account.storage_root # proof.storage_hash THEN OkBool(FALSE)
    ELSE IF account.code_hash # proof.code_hash THEN OkBool(FALSE)
    ELSE OkBool(TRUE)

\* lines 52-118: w is the final state of the walk
AccountVerdict(proof, w) ==
    IF w.status = "some" THEN AccountMatch(proof, AccountState_decode(w.value))
    ELSE IF w.status = "none" THEN AccountAbsent(proof)
    ELSE [st |-> w.status, msg |-> w.msg]

\* ProofGenerator::verify_account_proof
verify_account_proof(state_root, proof) ==
    IF proof.account_proof = <<>> THEN OkBool(FALSE)
    ELSE AccountVerdict(proof,
            verify_mpt_proof(state_root, keccak256(proof.address), proof.account_proof))

\* decode_storage_value
decode_storage_value(data) ==
    IF data = <<>> THEN [st |-> "ok", val |-> U256_ZERO]
    ELSE IF data[1] <= 127 THEN [st |-> "ok", val |-> StripZeros(<<data[1]>>)]
    ELSE IF data[1] >= 128 /\ data[1] <= 183 THEN
        IF data[1] - 128 = 0 THEN [st |-> "ok", val |-> U256_ZERO]
        ELSE IF Len(data) < 1 + (data[1] - 128) THEN Err("Truncated storage value")
        ELSE U256_from_be_slice(Slice(data, 1, 1 + (data[1] - 128)))
    ELSE U256_from_be_slice(data)

\* lines 157-169: decoded_value is what decode_storage_value returned
StorageMatch(proof, decoded_value) ==
    IF decoded_value.st # "ok" THEN decoded_value
    ELSE OkBool(decoded_value.val = proof.value)

\* lines 143-169: w is the final state of the walk
StorageVerdict(proof, w) ==
    IF w.status = "some" THEN StorageMatch(proof, decode_storage_value(w.value))
    ELSE IF w.status = "none" THEN OkBool(proof.value = U256_ZERO)
    ELSE [st |-> w.status, msg |-> w.msg]

\* verify_storage_proof with an empty proof accepted for a zero value under
\* any root
verify_storage_proof_any_root(storage_root, proof) ==
    IF proof.proof = <<>> THEN OkBool(proof.value = U256_ZERO)
    ELSE StorageVerdict(proof,
            verify_mpt_proof(storage_root, keccak256(proof.key), proof.proof))

\* ProofGenerator::verify_storage_proof; proof is a StorageProofData
verify_storage_proof(storage_root, proof) ==
    IF proof.proof = <<>> THEN
        OkBool(proof.value = U256_ZERO /\ storage_root = EMPTY_ROOT_HASH)
    ELSE StorageVerdict(proof,
            verify_mpt_proof(storage_root, keccak256(proof.key), proof.proof))

\* the for loop of verify_complete_proof over storage_proof, from entry k;
\* StorageLoopOf is the loop body after verify_storage_proof returned r
RECURSIVE StorageLoop(_, _, _)
RECURSIVE StorageLoopOf(_, _, _, _)
StorageLoopOf(storage_hash, storage_proof, k, r) ==
    IF r.st # "ok" THEN r
    ELSE IF ~r.val THEN OkBool(FALSE)
    ELSE StorageLoop(storage_hash, storage_proof, k + 1)

StorageLoop(storage_hash, storage_proof, k) ==
    IF k > Len(storage_proof) THEN OkBool(TRUE)
    ELSE StorageLoopOf(storage_hash, storage_proof, k,
                       verify_storage_proof(storage_hash, storage_proof[k]))

\* CompleteOf with an error of the account check turned into false
CompleteOfMasksError(proof, a) ==
    IF a.st # "ok" THEN OkBool(FALSE)
    ELSE IF ~a.val THEN OkBool(FALSE)
    ELSE StorageLoop(proof.storage_hash, proof.storage_proof, 1)

\* verify_complete_proof after verify_account_proof returned a
CompleteOf(proof, a) ==
    IF a.st # "ok" THEN a
    ELSE IF ~a.val THEN OkBool(FALSE)
    ELSE StorageLoop(proof.storage_hash, proof.storage_proof, 1)

\* ProofGenerator::verify_complete_proof
verify_complete_proof(state_root, proof) ==
    CompleteOf(proof, verify_account_proof(state_root, proof))

(***************************************************************************)
(* Encoders, used only to build the inputs: what a trie builder does.      *)
(***************************************************************************)

\* RLP of a byte string (shorter than 256 bytes)
RlpStr(b) ==
    IF Len(b) = 1 /\ b[1] <= 127 THEN b
    ELSE IF Len(b) <= 55 THEN <<128 + Len(b)>> \o b
    ELSE <<184, Len(b)>> \o b

RECURSIVE Concat(_)
Concat(seqs) == IF seqs = <<>> THEN <<>> ELSE Head(seqs) \o Concat(Tail(seqs))

\* RLP of a list whose items are already encoded (payload shorter than 65536)
RlpList(encodedItems) ==
    LET payload == Concat(encodedItems) IN
    IF Len(payload) <= 55 THEN <<192 + Len(payload)>> \o payload
    ELSE IF Len(payload) <= 255 THEN <<248, Len(payload)>> \o payload
    ELSE <<249, Len(payload) \div 256, Len(payload) % 256>> \o payload

\* hex-prefix encoding of a nibble path
HpEncode(nibbles, isLeaf) ==
    LET odd  == Len(nibbles) % 2 = 1
        flag == (IF isLeaf THEN 2 ELSE 0) + (IF odd THEN 1 ELSE 0)
        rest == IF odd THEN Tail(nibbles) ELSE nibbles
    IN  <<flag * 16 + (IF odd THEN nibbles[1] ELSE 0)>>
        \o [k \in 1..(Len(rest) \div 2) |-> rest[2 * k - 1] * 16 + rest[2 * k]]

\* a child reference as it is stored in its parent: a node of 32 bytes or
\* more by its hash (an RLP string), a shorter node inline (the node itself)
ChildRef(node) == IF Len(node) >= 32 THEN RlpStr(keccak256(node)) ELSE node

LeafNode(path, value) == RlpList(<<RlpStr(HpEncode(path, TRUE)), RlpStr(value)>>)

ExtensionNode(path, childRef) == RlpList(<<RlpStr(HpEncode(path, FALSE)), childRef>>)

\* children: a function from some nibbles to encoded child references
BranchNode(children, value) ==
    RlpList([k \in 1..17 |->
        IF k = 17 THEN RlpStr(value)
        ELSE IF (k - 1) \in DOMAIN children THEN children[k - 1]
        ELSE <<128>>])

\* the nibbles of key from 0-based position from on
KeyTail(key, from) == Slice(bytes_to_nibbles(key), from, 2 * Len(key))

(***************************************************************************)
(* Inputs of the walker specification: one small trie and the nodes an     *)
(* untrusted upstream can add to a proof.                                  *)
(***************************************************************************)

\* the longest proof list the walker specification tries
MaxProofLen == 3

WK1 == <<18>> \o Rep(17, 31)     \* nibbles 1 2 1 1 ...   in the trie
WK2 == <<26>> \o Rep(34, 31)     \* nibbles 1 a 2 2 ...   in the trie
WK3 == <<60>> \o Rep(51, 31)     \* nibbles 3 c 3 3 ...   not in the trie

WV1 == <<42>>
WV2 == <<131, 1, 2>>
WForged == <<99>>

WLeaf1 == LeafNode(KeyTail(WK1, 2), WV1)
WLeaf2 == LeafNode(KeyTail(WK2, 2), WV2)

\* an embedded leaf (3 bytes: c2 20 05): empty path, value 5
WShortLeaf == LeafNode(<<>>, <<5>>)

WBranch1 == BranchNode((2 :> ChildRef(WLeaf1)) @@ (10 :> ChildRef(WLeaf2)), <<>>)

\* the root: child 1 by hash, child 3 an embedded node
WBranch0 == BranchNode((1 :> ChildRef(WBranch1)) @@ (3 :> ChildRef(WShortLeaf)), <<>>)

WRoot == keccak256(WBranch0)

\* a root no node of the model hashes to
WOtherRoot == Rep(7, 32)

\* nodes that are in no trie: a leaf giving WK3 a value, a leaf giving WK1
\* another value one level down, and a branch shorter than 32 bytes whose
\* child 1 is the one-byte item 01
WForgedLeaf3 == LeafNode(KeyTail(WK3, 1), WForged)
WForgedLeaf1 == LeafNode(KeyTail(WK1, 1), WForged)
WShortBranch == BranchNode((1 :> <<1>>), <<>>)

WNodes == {WBranch0, WBranch1, WLeaf1, WLeaf2, WShortLeaf,
           WForgedLeaf3, WForgedLeaf1, WShortBranch}

WRoots == {EMPTY_ROOT_HASH, WRoot, WOtherRoot}

WKeys == {WK1, WK2, WK3}

SeqsUpTo(S, n) == UNION {[1..k -> S] : k \in 0..n}

\* a second trie for the same keys, with extension nodes
WK4 == <<18>> \o Rep(68, 31)     \* nibbles 1 2 4 4 ...   shares two nibbles with WK1

\* the number of nibbles of the long extension path
ExtPathLen == 40

\* a leaf of 16 bytes holding the rest of WK1 after the long extension
WTailLeaf == LeafNode(KeyTail(WK1, ExtPathLen), WV1)

\* an extension over the first ExtPathLen nibbles of WK1 with the leaf embedded
WExt == ExtensionNode(Slice(bytes_to_nibbles(WK1), 0, ExtPathLen), ChildRef(WTailLeaf))

\* an extension over nibble 1 that refers to WBranch1 by hash
WExtHash == ExtensionNode(<<1>>, ChildRef(WBranch1))

\* an extension whose path is longer than any key
WLongExt == ExtensionNode(Rep(1, 66), ChildRef(WBranch1))

\* a branch whose child 1 is a 33-byte string: neither a hash nor embedded
WBigBranch == BranchNode((1 :> RlpStr(Rep(9, 33))), <<>>)

\* a branch whose child 1 is an embedded extension over nibble 5 (to the
\* embedded leaf c2 20 05)
WEmbExtBranch == BranchNode((1 :> ExtensionNode(<<5>>, ChildRef(WShortLeaf))), <<>>)

WNodes2 == {WExt, WExtHash, WLongExt, WBigBranch, WEmbExtBranch, WBranch1, WLeaf1}

WRoots2 == {keccak256(WExt), keccak256(WExtHash), keccak256(WLongExt),
            keccak256(WBigBranch), keccak256(WEmbExtBranch)}

WKeys2 == {WK1, WK2, WK4}

\* a third trie: WK1 and WK5 share their first 62 nibbles, so the root is an
\* extension over them, its child a branch of 22 bytes holding two leaves of
\* 3 bytes; every node below the root is embedded
WK5 == <<18>> \o Rep(17, 30) \o <<33>>     \* nibbles 1 2 1 1 ... 1 2 1

\* the longest proof list tried over the nodes of the third trie
MaxProofLen3 == 2

WTinyLeafA == LeafNode(<<1>>, <<5>>)
WTinyLeafB == LeafNode(<<1>>, <<6>>)
WTinyBranch == BranchNode((1 :> WTinyLeafA) @@ (2 :> WTinyLeafB), <<>>)

\* the extension over the first 62 nibbles of WK1 holding the reference ref
WExt62(ref) == ExtensionNode(Slice(bytes_to_nibbles(WK1), 0, 62), ref)

\* the root of the third trie, and the same node with its child by hash
WDeepExt == WExt62(WTinyBranch)
WDeepExtByHash == WExt62(RlpStr(keccak256(WTinyBranch)))

\* the embedded extension of WEmbExtBranch, and that branch with the
\* extension by hash
WEmbExt == ExtensionNode(<<5>>, ChildRef(WShortLeaf))
WEmbExtByHash == BranchNode((1 :> RlpStr(keccak256(WEmbExt))), <<>>)

\* WExt with its leaf by hash
WExtByHash ==
    ExtensionNode(Slice(bytes_to_nibbles(WK1), 0, ExtPathLen), RlpStr(keccak256(WTailLeaf)))

\* extensions over nibble 1 whose item 1 is not a reference a trie builder
\* writes: a leaf of 36 bytes put inline, the empty string, a 33-byte string
WFatExt == ExtensionNode(<<1>>, LeafNode(KeyTail(WK1, 1), WV1))
WEmptyExt == ExtensionNode(<<1>>, <<128>>)
WBigExt == ExtensionNode(<<1>>, RlpStr(Rep(9, 33)))

\* an extension over all 64 nibbles of WK1 that refers to WBranch1 by hash
WFullExt == ExtensionNode(bytes_to_nibbles(WK1), ChildRef(WBranch1))

\* a 2-item node whose path byte is 0x40 (flag nibble 4, no path nibbles) and
\* whose item 1 is the hash of WBranch1
WFlag4 == RlpList(<<RlpStr(<<64>>), ChildRef(WBranch1)>>)

\* 9 bytes: the long-string prefix 0xbf and the length 2^64 - 1
WWrapNode == <<191>> \o Rep(255, 8)

\* 11 bytes: a list whose only item has the long-list prefix 0xff and the
\* length 2^64 - 9, so that 1 + 8 + length is 2^64
WStallNode == <<202, 255>> \o Rep(255, 7) \o <<247, 1>>

WNodes3 == {WDeepExt, WDeepExtByHash, WTinyBranch, WEmbExtBranch, WEmbExtByHash,
            WEmbExt, WExt, WExtByHash, WTailLeaf, WFatExt, WEmptyExt, WBigExt,
            WFullExt, WBranch1, WFlag4, WWrapNode, WStallNode}

WRoots3 == {keccak256(WDeepExt), keccak256(WDeepExtByHash), keccak256(WEmbExtBranch),
            keccak256(WEmbExtByHash), keccak256(WExt), keccak256(WExtByHash),
            keccak256(WFatExt), keccak256(WBigExt), keccak256(WFullExt),
            keccak256(WFlag4)}

WKeys3 == {WK1, WK5}

WalkInputs ==
    [root : WRoots, key : WKeys, proof : SeqsUpTo(WNodes, MaxProofLen)]
    \cup [root : WRoots2, key : WKeys2, proof : SeqsUpTo(WNodes2, MaxProofLen)]
    \cup [root : WRoots3, key : WKeys3, proof : SeqsUpTo(WNodes3, MaxProofLen3)]

\* the digest is collision-free on the byte strings the model hashes
KeccakInjective ==
    \A a, b \in WNodes \cup WNodes2 \cup WNodes3 \cup {<<>>, <<128>>} :
        a # b => keccak256(a) # keccak256(b)

(***************************************************************************)
(* The chain the gateway serves: blocks 1..MaxBlock, two accounts, one     *)
(* storage slot.  HeadAt(b) is the tuple the light client authenticates    *)
(* for block b (types.rs 7-13).                                            *)
(***************************************************************************)

\* the highest block the light client reaches
MaxBlock == 2

Addr1 == Rep(161, 20)              \* an externally owned account
Addr2 == Rep(162, 20)              \* a contract with one storage slot
Addresses == {Addr1, Addr2}

Slot1 == Rep(0, 31) \o <<1>>       \* set in Addr2's storage
Slot2 == Rep(0, 31) \o <<2>>       \* never set: its value is zero
Slots == {Slot1, Slot2}

CodeHash2 == Rep(204, 32)

\* the value of Slot1 in block b
SlotValue(b) == <<40 + b>>

StorageLeaf(b) == LeafNode(KeyTail(keccak256(Slot1), 0), RlpStr(SlotValue(b)))

StorageRoot(b) == keccak256(StorageLeaf(b))

\* the account of addr in block b
Account(addr, b) ==
    IF addr = Addr1
    THEN [nonce |-> <<b>>, balance |-> <<10 * b>>,
          storage_root |-> EMPTY_ROOT_HASH, code_hash |-> EMPTY_CODE_HASH]
    ELSE [nonce |-> <<1>>, balance |-> <<7>>,
          storage_root |-> StorageRoot(b), code_hash |-> CodeHash2]

AccountRlp(a) ==
    RlpList(<<RlpStr(a.nonce), RlpStr(a.balance),
              RlpStr(a.storage_root), RlpStr(a.code_hash)>>)

AccountLeaf(addr, b) == LeafNode(KeyTail(keccak256(addr), 1), AccountRlp(Account(addr, b)))

FirstNibble(addr) == bytes_to_nibbles(keccak256(addr))[1]

\* the root node of the state trie of block b: a branch over the two leaves
StateRootNode(b) ==
    BranchNode((FirstNibble(Addr1) :> ChildRef(AccountLeaf(Addr1, b)))
               @@ (FirstNibble(Addr2) :> ChildRef(AccountLeaf(Addr2, b))), <<>>)

HeadAt(b) == [state_root |-> keccak256(StateRootNode(b)), slot |-> 100 + b,
              block_number |-> b]

(***************************************************************************)
(* What the untrusted upstream may answer (upstream.rs 35-52, 91-111):     *)
(* any ProofData it likes.  The model gives it the honest proofs of every  *)
(* account, slot list and block, and tampered and forged ones.             *)
(***************************************************************************)

StorageEntry(key, b) ==
    [key |-> key, value |-> IF key = Slot1 THEN SlotValue(b) ELSE U256_ZERO,
     proof |-> <<StorageLeaf(b)>>]

\* the honest eth_getProof answer for (addr, keys, block b)
HonestProof(addr, keys, b) ==
    LET a == Account(addr, b) IN
    [address |-> addr, balance |-> a.balance, code_hash |-> a.code_hash,
     nonce |-> a.nonce, storage_hash |-> a.storage_root,
     account_proof |-> <<StateRootNode(b), AccountLeaf(addr, b)>>,
     storage_proof |-> IF addr = Addr2
                       THEN [k \in 1..Len(keys) |-> StorageEntry(keys[k], b)]
                       ELSE [k \in 1..Len(keys) |->
                               [key |-> keys[k], value |-> U256_ZERO, proof |-> <<>>]]]

KeyLists == {<<>>, <<Slot1>>, <<Slot2>>}

HonestReplies ==
    {HonestProof(addr, keys, b) : addr \in Addresses, keys \in KeyLists, b \in 1..MaxBlock}

Forged == <<99>>

\* honest answers with one claimed scalar changed
TamperedReplies ==
    {[HonestProof(Addr1, <<>>, b) EXCEPT !.balance = Forged] : b \in 1..MaxBlock}
    \cup {[HonestProof(Addr1, <<>>, b) EXCEPT !.nonce = Forged] : b \in 1..MaxBlock}
    \cup {[HonestProof(Addr2, <<Slot1>>, b) EXCEPT !.storage_proof[1].value = Forged]
            : b \in 1..MaxBlock}

\* the answer with no proof nodes and every field at its default
EmptyReply(addr) ==
    [address |-> addr, balance |-> U256_ZERO, code_hash |-> EMPTY_CODE_HASH,
     nonce |-> U256_ZERO, storage_hash |-> EMPTY_ROOT_HASH,
     account_proof |-> <<>>, storage_proof |-> <<>>]

\* an account record that is in no trie, behind a branch shorter than 32
\* bytes whose selected child is a one-byte item
ForgedAccount ==
    [nonce |-> Forged, balance |-> Forged,
     storage_root |-> EMPTY_ROOT_HASH, code_hash |-> EMPTY_CODE_HASH]

ForgedReply(addr) ==
    [address |-> addr, balance |-> Forged, code_hash |-> EMPTY_CODE_HASH,
     nonce |-> Forged, storage_hash |-> EMPTY_ROOT_HASH,
     account_proof |-> << BranchNode((FirstNibble(addr) :> <<1>>), <<>>),
                          LeafNode(KeyTail(keccak256(addr), 1), AccountRlp(ForgedAccount)) >>,
     storage_proof |-> <<>>]

UpstreamReplies ==
    HonestReplies \cup TamperedReplies \cup {EmptyReply(Addr1), ForgedReply(Addr1)}

(***************************************************************************)
(* The walker specification: verify_mpt_proof on every input, one loop     *)
(* iteration per step.                                                     *)
(***************************************************************************)

Idle == [status |-> "idle"]

\* the variables of a specification that is not running
WalkOff == winput = <<>> /\ walk = <<>>

GatewayOff ==
    /\ boot = "off" /\ enabled = FALSE /\ consensus = "none"
    /\ head = <<>> /\ req = <<>> /\ resp = <<>>

OrchOff == vinput = <<>> /\ vout = <<>>

CodecOff == cinput = <<>> /\ cout = <<>>

WalkInit ==
    /\ winput \in WalkInputs
    /\ walk = Idle
    /\ GatewayOff /\ OrchOff /\ CodecOff
    /\ overflow_checks \in BOOLEAN

\* the call: lines 213-225
WalkCall ==
    /\ walk.status = "idle"
    /\ walk' = MptStart(winput.root, winput.key, winput.proof)
    /\ UNCHANGED <<overflow_checks, winput, gatewayVars, orchVars, codecVars>>

\* one iteration of the loop, or its end: lines 227-321
WalkStep ==
    /\ walk.status = "run"
    /\ walk' = MptIter(walk, winput.proof)
    /\ UNCHANGED <<overflow_checks, winput, gatewayVars, orchVars, codecVars>>

WalkNext == WalkCall \/ WalkStep

WalkSpec == WalkInit /\ [][WalkNext]_vars

WalkDone == walk.status \in {"some", "none", "err", "panic"}

(***************************************************************************)
(* The orchestrator specification: the three verify operations applied to  *)
(* every state root and every upstream answer.                             *)
(***************************************************************************)

OrchRoots == {EMPTY_ROOT_HASH} \cup {HeadAt(b).state_root : b \in 1..MaxBlock}

\* an address that is in no state trie
Addr3 == Rep(163, 20)

\* the claimed account fields at their defaults, and with one of them changed
DefaultFields ==
    [balance |-> U256_ZERO, nonce |-> U256_ZERO,
     storage_hash |-> EMPTY_ROOT_HASH, code_hash |-> EMPTY_CODE_HASH]

ClaimedFields ==
    {DefaultFields,
     [DefaultFields EXCEPT !.balance = Forged],
     [DefaultFields EXCEPT !.nonce = Forged],
     [DefaultFields EXCEPT !.storage_hash = CodeHash2],
     [DefaultFields EXCEPT !.code_hash = CodeHash2]}

\* the exclusion proof of Addr3 at block b, with the claimed fields f
AbsentReply(f, b) ==
    [address |-> Addr3, balance |-> f.balance, code_hash |-> f.code_hash,
     nonce |-> f.nonce, storage_hash |-> f.storage_hash,
     account_proof |-> <<StateRootNode(b)>>, storage_proof |-> <<>>]

\* honest answers for Addr2 with the claimed storage_hash or code_hash changed
TamperedHashes ==
    {[HonestProof(Addr2, <<>>, b) EXCEPT !.storage_hash = EMPTY_ROOT_HASH] : b \in 1..MaxBlock}
    \cup {[HonestProof(Addr2, <<>>, b) EXCEPT !.code_hash = EMPTY_CODE_HASH] : b \in 1..MaxBlock}

\* storage entries without proof nodes: zero or not, under an empty storage
\* trie (Addr1) or a non-empty one (Addr2)
EmptyStorageProofs ==
    {[HonestProof(addr, <<Slot1>>, b) EXCEPT !.storage_proof[1].value = v,
                                             !.storage_proof[1].proof = <<>>]
        : addr \in Addresses, v \in {U256_ZERO, Forged}, b \in 1..MaxBlock}

\* Addr2 with entries for both slots: all honest, the first or the second
\* value changed, or the first or the second entry proved under another trie
OtherLeaf == LeafNode(KeyTail(keccak256(Slot2), 0), RlpStr(Forged))

TwoSlotReplies ==
    LET h(b) == HonestProof(Addr2, <<Slot1, Slot2>>, b) IN
    {h(b) : b \in 1..MaxBlock}
    \cup {[h(b) EXCEPT !.storage_proof[1].value = Forged] : b \in 1..MaxBlock}
    \cup {[h(b) EXCEPT !.storage_proof[2].value = Forged] : b \in 1..MaxBlock}
    \cup {[h(b) EXCEPT !.storage_proof[1].proof = <<OtherLeaf>>] : b \in 1..MaxBlock}
    \cup {[h(b) EXCEPT !.storage_proof[2].proof = <<OtherLeaf>>] : b \in 1..MaxBlock}
    \cup {[h(b) EXCEPT !.storage_proof[1].value = Forged,
                       !.storage_proof[2].proof = <<OtherLeaf>>] : b \in 1..MaxBlock}
    \cup {[h(b) EXCEPT !.balance = Forged,
                       !.storage_proof[1].proof = <<OtherLeaf>>] : b \in 1..MaxBlock}

OrchReplies ==
    UpstreamReplies \cup {EmptyReply(Addr2)}
    \cup {AbsentReply(f, b) : f \in ClaimedFields, b \in 1..MaxBlock}
    \cup TamperedHashes \cup EmptyStorageProofs \cup TwoSlotReplies

\* account values that are not a well-formed 4-item record: three items, a
\* nonce of 9 bytes, a balance of 33 bytes, a storage root of 31 bytes, a
\* code hash of 33 bytes
MalformedAccounts ==
    {RlpList(<<RlpStr(<<1>>), RlpStr(<<7>>), RlpStr(EMPTY_ROOT_HASH)>>),
     RlpList(<<RlpStr(Rep(1, 9)), RlpStr(<<7>>),
               RlpStr(EMPTY_ROOT_HASH), RlpStr(EMPTY_CODE_HASH)>>),
     RlpList(<<RlpStr(<<1>>), RlpStr(Rep(1, 33)),
               RlpStr(EMPTY_ROOT_HASH), RlpStr(EMPTY_CODE_HASH)>>),
     RlpList(<<RlpStr(<<1>>), RlpStr(<<7>>),
               RlpStr(Rep(86, 31)), RlpStr(EMPTY_CODE_HASH)>>),
     RlpList(<<RlpStr(<<1>>), RlpStr(<<7>>),
               RlpStr(EMPTY_ROOT_HASH), RlpStr(Rep(197, 33))>>)}

\* a state trie of one leaf: Addr1 with the account value v
OneLeaf(v) == LeafNode(KeyTail(keccak256(Addr1), 0), v)

\* the proof of Addr1 in that trie, claiming nonce 1, balance 7 and the
\* default hashes
OneLeafCase(v) ==
    [state_root |-> keccak256(OneLeaf(v)),
     proof |-> [address |-> Addr1, balance |-> <<7>>, code_hash |-> EMPTY_CODE_HASH,
                nonce |-> <<1>>, storage_hash |-> EMPTY_ROOT_HASH,
                account_proof |-> <<OneLeaf(v)>>, storage_proof |-> <<>>]]

WellFormedAccount ==
    AccountRlp([nonce |-> <<1>>, balance |-> <<7>>,
                storage_root |-> EMPTY_ROOT_HASH, code_hash |-> EMPTY_CODE_HASH])

\* storage values as they sit in a leaf: the RLP of 41, a list holding 5, a
\* one-byte value followed by another byte, the RLP of a 33-byte integer in
\* the short and in the long form
StorageValues ==
    {RlpStr(<<41>>), <<193, 5>>, <<5, 6>>,
     <<161>> \o Rep(1, 33), <<184, 33>> \o Rep(1, 33)}

\* a storage trie of one leaf holding v at Slot1, and the entry that claims
\* the value c for Slot1 in it
StorageCase(v, c) ==
    LET leaf == LeafNode(KeyTail(keccak256(Slot1), 0), v) IN
    [state_root |-> EMPTY_ROOT_HASH,
     proof |-> [EmptyReply(Addr1) EXCEPT
                  !.storage_hash = keccak256(leaf),
                  !.storage_proof = <<[key |-> Slot1, value |-> c, proof |-> <<leaf>>]>>]]

OrchCases ==
    {OneLeafCase(v) : v \in MalformedAccounts \cup {WellFormedAccount}}
    \cup {StorageCase(v, c) : v \in StorageValues, c \in {<<41>>, <<193, 5>>, <<5>>}}

OrchInit ==
    /\ vinput \in [state_root : OrchRoots, proof : OrchReplies] \cup OrchCases
    /\ vout = [op |-> "none"]
    /\ WalkOff /\ GatewayOff /\ CodecOff
    /\ overflow_checks \in BOOLEAN

OrchVerifyAccount ==
    /\ vout.op = "none"
    /\ vout' = [op |-> "verify_account",
                r |-> verify_account_proof(vinput.state_root, vinput.proof)]
    /\ UNCHANGED <<overflow_checks, vinput, walkVars, gatewayVars, codecVars>>

OrchVerifyStorage ==
    /\ vout.op = "none"
    /\ \E k \in 1..Len(vinput.proof.storage_proof) :
         vout' = [op |-> "verify_storage", k |-> k,
                  r |-> verify_storage_proof(vinput.proof.storage_hash,
                                             vinput.proof.storage_proof[k])]
    /\ UNCHANGED <<overflow_checks, vinput, walkVars, gatewayVars, codecVars>>

OrchVerifyComplete ==
    /\ vout.op = "none"
    /\ vout' = [op |-> "verify_complete",
                r |-> verify_complete_proof(vinput.state_root, vinput.proof)]
    /\ UNCHANGED <<overflow_checks, vinput, walkVars, gatewayVars, codecVars>>

OrchNext == OrchVerifyAccount \/ OrchVerifyStorage \/ OrchVerifyComplete

OrchSpec == OrchInit /\ [][OrchNext]_vars

(***************************************************************************)
(* The codec specification: the decoders of proof/mod.rs applied to byte   *)
(* strings, one call per behaviour.                                        *)
(***************************************************************************)

\* encoded paths: the empty one, and every flag nibble with a low nibble of
\* 0 or 7, followed by no, one or two bytes
HpInputs ==
    {<<>>} \cup {<<f * 16 + l>> \o t : f \in 0..15, l \in {0, 7},
                                       t \in {<<>>, <<171>>, <<18, 52>>}}

\* the length bytes of a long form: 2^64 - 1 - k in 8 bytes (k < 256)
NearMax(k) == Rep(255, USIZE_BYTES - 1) \o <<255 - k>>

\* RLP items of the five prefix ranges: complete, cut short, followed by
\* more bytes, and long forms whose length is close to the largest usize;
\* the long payloads hold one string item
RlpInputs ==
    {<<>>, <<5>>, <<5, 6>>, <<127>>,
     <<128>>, <<129, 200>>, <<131, 1, 2, 3>>, <<131, 1, 2>>, <<131, 1, 2, 3, 4>>,
     <<183, 182>> \o Rep(1, 54), <<183, 182>> \o Rep(1, 53),
     <<184>>, <<184, 56, 183>> \o Rep(1, 55), <<184, 56, 183>> \o Rep(1, 54),
     <<185, 1>>, <<185, 0, 2, 7, 7>>, <<185, 1, 0, 7>>,
     <<192>>, <<193, 5>>, <<194, 5>>, <<195, 130, 1, 2>>, <<194, 129, 200, 9>>,
     <<194, 129>>, <<196, 131, 1, 2>>, <<197, 194, 32, 5, 1, 2>>,
     <<247, 182>> \o Rep(1, 54), <<247, 182>> \o Rep(1, 50),
     <<248>>, <<248, 56, 183>> \o Rep(1, 55), <<248, 56, 183>> \o Rep(1, 40),
     <<249, 1>>, <<249, 0, 3, 1, 2, 3>>}
    \cup {<<p>> \o NearMax(k) \o t :
             p \in {191, 255}, k \in {0, 8, 9, 10}, t \in {<<>>, <<1, 2>>}}
    \cup {<<202, p>> \o NearMax(k) \o <<1>> : p \in {191, 255}, k \in {0, 8}}

\* storage values as the walk returns them: a payload of 0, 1, 32 and 33
\* bytes in the short form, 33 bytes in the long form, a list, raw bytes
StorageInputs ==
    {<<>>, <<5>>, <<0>>, <<5, 6>>, <<128>>, <<129, 200>>, <<131, 1, 2>>,
     <<130, 0, 7>>, <<160>> \o Rep(129, 32), <<161>> \o Rep(129, 33),
     <<161, 0>> \o Rep(129, 32), <<184, 33>> \o Rep(129, 33), <<184, 1, 7>>,
     <<193, 5>>, <<200>> \o Rep(1, 8)}

CodecInputs == HpInputs \cup RlpInputs \cup StorageInputs

CodecInit ==
    /\ cinput \in CodecInputs
    /\ cout = [op |-> "none"]
    /\ WalkOff /\ GatewayOff /\ OrchOff
    /\ overflow_checks \in BOOLEAN

CodecDecodeHpPath ==
    /\ cout.op = "none"
    /\ cout' = [op |-> "decode_hp_path", r |-> decode_hp_path(cinput)]
    /\ UNCHANGED <<overflow_checks, cinput, walkVars, gatewayVars, orchVars>>

CodecDecodeRlpLength ==
    /\ cout.op = "none"
    /\ cout' = [op |-> "decode_rlp_length", r |-> decode_rlp_length(cinput)]
    /\ UNCHANGED <<overflow_checks, cinput, walkVars, gatewayVars, orchVars>>

CodecDecodeRlpItem ==
    /\ cout.op = "none"
    /\ cout' = [op |-> "decode_rlp_item", r |-> decode_rlp_item(cinput)]
    /\ UNCHANGED <<overflow_checks, cinput, walkVars, gatewayVars, orchVars>>

CodecDecodeRlpList ==
    /\ cout.op = "none"
    /\ cout' = [op |-> "decode_rlp_list", r |-> decode_rlp_list(cinput)]
    /\ UNCHANGED <<overflow_checks, cinput, walkVars, gatewayVars, orchVars>>

CodecDecodeStorageValue ==
    /\ cout.op = "none"
    /\ cout' = [op |-> "decode_storage_value", r |-> decode_storage_value(cinput)]
    /\ UNCHANGED <<overflow_checks, cinput, walkVars, gatewayVars, orchVars>>

CodecNext ==
    \/ CodecDecodeHpPath
    \/ CodecDecodeRlpLength
    \/ CodecDecodeRlpItem
    \/ CodecDecodeRlpList
    \/ CodecDecodeStorageValue

CodecSpec == CodecInit /\ [][CodecNext]_vars

(***************************************************************************)
(* The gateway: main (main.rs 83-112), the handlers (rpc/handlers.rs) and  *)
(* the JSON values they return (types.rs 45-112).  A JSON object is a      *)
(* record holding exactly the keys that are serialized.                    *)
(***************************************************************************)

HexDigit == <<"0", "1", "2", "3", "4", "5", "6", "7",
              "8", "9", "a", "b", "c", "d", "e", "f">>

RECURSIVE LowerHex(_)
LowerHex(n) ==
    IF n < 16 THEN HexDigit[n + 1]
    ELSE LowerHex(n \div 16) \o HexDigit[(n % 16) + 1]

\* format!("0x{:x}", block_number)
HexBlock(n) == "0x" \o LowerHex(n)

\* B256::from(value): 32 bytes, big-endian
B256_from(value) == Rep(0, 32 - Len(value)) \o value

\* RpcResponse::new: proof and consensus are None and are not serialized
RpcResponse_new(id, result) == [jsonrpc |-> "2.0", id |-> id, result |-> result]

\* RpcResponse::with_proof
with_proof(response, proof, cp) == response @@ [proof |-> proof, consensus |-> cp]

RpcError_new(id, code, message) ==
    [jsonrpc |-> "2.0", id |-> id, error |-> [code |-> code, message |-> message]]

RpcError_internal(id, message) == RpcError_new(id, -32603, message)

RpcError_invalid_params(id, message) == RpcError_new(id, -32602, message)

\* no JSON value: the request is still in flight
NoResponse == [pending |-> TRUE]

\* a panic unwinds the handler's task: the client gets no JSON value
Aborted == [aborted |-> TRUE]

None == [st |-> "none"]
Some(v) == [st |-> "some", val |-> v]

\* main.rs 84-112: the Option<ConsensusClient> handed to rpc::serve;
\* new_ok and sync_ok are the outcomes of ConsensusClient::new and
\* wait_for_sync
consensus_client(cfg_enabled, new_ok, sync_ok) ==
    IF cfg_enabled THEN
        IF new_ok THEN (IF sync_ok THEN "some" ELSE "none")
        ELSE "none"
    ELSE "none"

\* ConsensusClient::get_consensus_proof: the current authenticated head, or
\* an error when the head cannot be read
get_consensus_proof(current, read_ok) ==
    IF read_ok THEN [st |-> "ok", val |-> current] ELSE Err("not synced")

\* handlers.rs 47-57: the consensus_proof local, an Option<ConsensusProof>;
\* r is what get_consensus_proof returned
consensus_proof_of(client, r) ==
    IF client = "some" THEN (IF r.st = "ok" THEN Some(r.val) ELSE None)
    ELSE None

\* handlers.rs 60-68: the block selector sent to the upstream
query_block_of(block, cp) ==
    IF block = "latest" THEN
        IF cp.st = "some" THEN HexBlock(cp.val.block_number) ELSE block
    ELSE block

\* Verification against the state root of the head as it is when the proof
\* arrives, not of the tuple read at the start of the request
VerificationRereadsHead(method, cp, proof_data) ==
    IF cp.st # "some" THEN [st |-> "skipped"]
    ELSE IF method = "eth_getStorageAt"
         THEN verify_complete_proof(head.state_root, proof_data)
    ELSE verify_account_proof(head.state_root, proof_data)

\* handlers.rs 84-85, 213-214, 306-307: the verification the handler runs,
\* "skipped" when consensus_proof is None
Verification(method, cp, proof_data) ==
    IF cp.st # "some" THEN [st |-> "skipped"]
    ELSE IF method = "eth_getStorageAt"
         THEN verify_complete_proof(cp.val.state_root, proof_data)
    ELSE verify_account_proof(cp.val.state_root, proof_data)

\* handlers.rs 108, 238-245, 330: the scalar the handler extracts
extract_scalar(method, proof_data) ==
    IF method = "eth_getBalance" THEN proof_data.balance
    ELSE IF method = "eth_getTransactionCount" THEN proof_data.nonce
    ELSE B256_from(IF proof_data.storage_proof # <<>>
                   THEN proof_data.storage_proof[1].value
                   ELSE U256_ZERO)

\* handlers.rs 110-119: the success response
Success(id, value, include_proof, cp, proof_data) ==
    IF include_proof /\ cp.st = "some"
    THEN with_proof(RpcResponse_new(id, value), proof_data, cp.val)
    ELSE RpcResponse_new(id, value)

\* ReadResponse without the Ok(false) arm: only an Err of the verifier
\* stops the response
ReadResponseFalsePasses(id, method, v, include_proof, cp, proof_data) ==
    IF v.st = "err" THEN RpcError_internal(id, "Proof verification error")
    ELSE IF v.st \in {"panic", "hang"} THEN Aborted
    ELSE Success(id, extract_scalar(method, proof_data), include_proof, cp, proof_data)

\* handlers.rs 84-119 (and 213-257, 306-341): the match on the verification
\* outcome v, then the response
ReadResponse(id, method, v, include_proof, cp, proof_data) ==
    IF v.st = "ok" /\ ~v.val
    THEN RpcError_internal(id, "Proof verification failed - data integrity check failed")
    ELSE IF v.st = "err" THEN RpcError_internal(id, "Proof verification error")
    ELSE IF v.st \in {"panic", "hang"} THEN Aborted
    ELSE Success(id, extract_scalar(method, proof_data), include_proof, cp, proof_data)

\* the outcome of the verification as the handler's match sees it
VerifyTag(v) ==
    IF v.st = "ok" THEN (IF v.val THEN "true" ELSE "false") ELSE v.st

ReadMethods == {"eth_getBalance", "eth_getStorageAt", "eth_getTransactionCount"}

Blocks == {"latest", HexBlock(1)}

\* the requests a client sends: params_ok is FALSE when the handler's
\* parameter parsing rejects them
Requests ==
    [method : {"eth_getBalance", "eth_getTransactionCount"}, params_ok : {TRUE},
     address : Addresses, slot : {Slot1}, keys : {<<>>}, block : Blocks,
     include_proof : BOOLEAN]
    \cup
    [method : {"eth_getStorageAt"}, params_ok : {TRUE},
     address : Addresses, slot : Slots, keys : {<<>>}, block : Blocks,
     include_proof : BOOLEAN]
    \cup
    [method : {"eth_getProof"}, params_ok : {TRUE},
     address : Addresses, slot : {Slot1}, keys : KeyLists, block : Blocks,
     include_proof : {FALSE}]
    \cup
    [method : ReadMethods \cup {"eth_getProof"}, params_ok : {FALSE},
     address : {Addr1}, slot : {Slot1}, keys : {<<>>}, block : {"latest"},
     include_proof : {FALSE}]

RequestId == 1

Init ==
    /\ boot = "boot"
    /\ enabled \in BOOLEAN
    /\ consensus = "none"
    /\ head = HeadAt(1)
    /\ req = [pc |-> "idle"]
    /\ resp = NoResponse
    /\ WalkOff /\ OrchOff /\ CodecOff
    /\ overflow_checks \in BOOLEAN

\* main: the consensus client is initialised and synced, or not, and the
\* server starts
Main ==
    /\ boot = "boot"
    /\ \E new_ok, sync_ok \in BOOLEAN :
         consensus' = consensus_client(enabled, new_ok, sync_ok)
    /\ boot' = "serving"
    /\ UNCHANGED <<overflow_checks, enabled, head, req, resp, walkVars, orchVars, codecVars>>

\* the light client's update loop authenticates the next block
HeadAdvance ==
    /\ boot = "serving"
    /\ consensus = "some"
    /\ head.block_number < MaxBlock
    /\ head' = HeadAt(head.block_number + 1)
    /\ UNCHANGED <<overflow_checks, boot, enabled, consensus, req, resp, walkVars, orchVars, codecVars>>

\* rpc_handler dispatches a request; the handler parses the parameters
Receive ==
    /\ boot = "serving"
    /\ req.pc = "idle"
    /\ \E r \in Requests :
         IF ~r.params_ok THEN
             /\ req' = r @@ [pc |-> "done", verify |-> "none"]
             /\ resp' = RpcError_invalid_params(RequestId, "invalid params")
         ELSE IF r.method = "eth_getProof" THEN
             /\ req' = r @@ [pc |-> "fetch", verify |-> "none",
                             consensus_proof |-> None, query_block |-> r.block]
             /\ resp' = resp
         ELSE
             /\ req' = r @@ [pc |-> "head", verify |-> "none"]
             /\ resp' = resp
    /\ UNCHANGED <<overflow_checks, boot, enabled, consensus, head, walkVars, orchVars, codecVars>>

\* get_consensus_proof().await returns (handlers.rs 47-68)
ReadHead ==
    /\ req.pc = "head"
    /\ \E read_ok \in BOOLEAN :
         LET cp == consensus_proof_of(consensus, get_consensus_proof(head, read_ok)) IN
         req' = [pc |-> "fetch", consensus_proof |-> cp,
                 query_block |-> query_block_of(req.block, cp)] @@ req
    /\ UNCHANGED <<overflow_checks, boot, enabled, consensus, head, resp, walkVars, orchVars, codecVars>>

\* upstream.eth_get_proof(..).await fails (handlers.rs 73-80)
FetchFails ==
    /\ req.pc = "fetch"
    /\ req' = [req EXCEPT !.pc = "done"]
    /\ resp' = RpcError_internal(RequestId, "Failed to fetch proof")
    /\ UNCHANGED <<overflow_checks, boot, enabled, consensus, head, walkVars, orchVars, codecVars>>

\* upstream.eth_get_proof(..).await returns a ProofData; the read handlers
\* verify it and respond (handlers.rs 83-119)
FetchRead ==
    /\ req.pc = "fetch"
    /\ req.method \in ReadMethods
    /\ \E proof_data \in UpstreamReplies :
         LET v == Verification(req.method, req.consensus_proof, proof_data) IN
         /\ req' = [pc |-> "done", verify |-> VerifyTag(v), proof_data |-> proof_data] @@ req
         /\ resp' = ReadResponse(RequestId, req.method, v, req.include_proof,
                                 req.consensus_proof, proof_data)
    /\ UNCHANGED <<overflow_checks, boot, enabled, consensus, head, walkVars, orchVars, codecVars>>

\* eth_get_proof returns what the upstream sent (handlers.rs 419-435)
FetchProof ==
    /\ req.pc = "fetch"
    /\ req.method = "eth_getProof"
    /\ \E proof_data \in UpstreamReplies :
         /\ req' = [pc |-> "done", proof_data |-> proof_data] @@ req
         /\ resp' = RpcResponse_new(RequestId, proof_data)
    /\ UNCHANGED <<overflow_checks, boot, enabled, consensus, head, walkVars, orchVars, codecVars>>

Next == Main \/ HeadAdvance \/ Receive \/ ReadHead \/ FetchFails \/ FetchRead \/ FetchProof

Spec == Init /\ [][Next]_vars

(***************************************************************************)
(* Properties of the walker (WalkSpec).                                    *)
(***************************************************************************)

\* C6: for every key, the walk of an empty proof list ends in None when the
\* root is EMPTY_ROOT_HASH and in an error for every other root; it never
\* ends in Some.
C6_EmptyProof ==
    (WalkDone /\ winput.proof = <<>>) =>
        /\ walk.status # "some"
        /\ (winput.root = EMPTY_ROOT_HASH => walk.status = "none")
        /\ (winput.root # EMPTY_ROOT_HASH => walk.status = "err")

C6_Witness ==
    /\ winput.proof = <<>>
    /\ winput.root = EMPTY_ROOT_HASH
    /\ winput.key = WK2
    /\ walk.status = "none"

\* the nodes of the proof the walk consumed
Consumed == 1..walk.i

\* C8: in every walk that ends in Some or None, each consumed node of 32
\* bytes or more after the first hashes to the child reference its parent
\* holds at the selected position.  (The first node is taken to hash to the
\* root, which is C9's matter.)
C8_ChainAuthenticated ==
    (walk.status \in {"some", "none"} /\ winput.proof # <<>>
        /\ keccak256(winput.proof[1]) = winput.root) =>
        \A j \in Consumed \ {1} :
            Len(winput.proof[j]) >= 32 =>
                keccak256(winput.proof[j]) = walk.refs[j - 1]

\* C9: a walk of a non-empty proof whose first node does not hash to the
\* root ends in an error, whatever the length of that node.
C9_FirstNodeHashesToRoot ==
    (WalkDone /\ winput.proof # <<>>
        /\ keccak256(winput.proof[1]) # winput.root) =>
        walk.status = "err"

\* the last consumed node is the last of the list and selected a child by a
\* 32-byte hash
PointsFurtherByHash ==
    /\ walk.i > 0
    /\ walk.i = Len(winput.proof)
    /\ Len(walk.refs) = walk.i
    /\ Len(walk.refs[walk.i]) = 32

\* C10: a walk whose proof list is exhausted while the last processed node
\* still points to a further node by hash ends in an error, neither Some nor
\* None.
C10_IncompleteProof ==
    (WalkDone /\ PointsFurtherByHash) => walk.status = "err"

\* the valid inclusion proof of WK1 under WRoot with its leaf dropped
C10_Witness ==
    /\ walk.status = "err"
    /\ winput = [root |-> WRoot, key |-> WK1, proof |-> <<WBranch0, WBranch1>>]
    /\ PointsFurtherByHash

\* the proof node the next loop iteration decodes: the walk is running, a
\* node is left and it passes the hash checks
NodeUp ==
    /\ walk.status = "run"
    /\ walk.i < Len(winput.proof)
    /\ MptHashOk(winput.proof[walk.i + 1], walk.i, walk.expected_hash)

RemainingFrom(cursor) == Slice(walk.key_nibbles, cursor, Len(walk.key_nibbles))

StartsWith(s, prefix) ==
    Len(prefix) <= Len(s) /\ SubSeq(s, 1, Len(prefix)) = prefix

\* d is a decoded node of two items whose path hp marks a leaf (or not)
IsLeafNode(d, leaf) ==
    /\ d.st = "ok"
    /\ Len(d.items) = 2
    /\ decode_hp_path(d.items[1]).is_leaf = leaf

\* the walk state w is the verdict of the leaf d met with the key left from
\* cursor on
LeafVerdict(d, cursor, w) ==
    IF decode_hp_path(d.items[1]).nibbles = RemainingFrom(cursor)
    THEN w.status = "some" /\ w.value = d.items[2]
    ELSE w.status = "none"

\* the child the branch d selects by the nibble at the cursor
SelectedChild(d) == d.items[walk.key_nibbles[walk.key_index + 1] + 1]

\* d is a branch that selects an embedded child: non-empty and shorter than
\* 32 bytes
BranchSelectsEmbedded(d) ==
    /\ d.st = "ok"
    /\ Len(d.items) = 17
    /\ walk.key_index < Len(walk.key_nibbles)
    /\ SelectedChild(d) # <<>>
    /\ Len(SelectedChild(d)) < 32

\* d is an extension whose path matches and whose item 1 is not 32 bytes
ExtensionInlinesChild(d) ==
    /\ IsLeafNode(d, FALSE)
    /\ StartsWith(RemainingFrom(walk.key_index), decode_hp_path(d.items[1]).nibbles)
    /\ Len(d.items[2]) # 32

\* the step from the current state to w treats a leaf as C18 says: d is the
\* decoded proof node, itself a leaf or the parent of an embedded leaf
LeafStep(d, w) ==
    /\ IsLeafNode(d, TRUE) =>
          /\ LeafVerdict(d, walk.key_index, w)
          /\ w.i = walk.i + 1
    /\ (BranchSelectsEmbedded(d)
          /\ IsLeafNode(decode_rlp_list(SelectedChild(d)), TRUE)) =>
          LeafVerdict(decode_rlp_list(SelectedChild(d)), walk.key_index + 1, w)
    /\ (ExtensionInlinesChild(d) /\ IsLeafNode(decode_rlp_list(d.items[2]), TRUE)) =>
          LeafVerdict(decode_rlp_list(d.items[2]),
                walk.key_index + Len(decode_hp_path(d.items[1]).nibbles), w)

\* C18: at a leaf node, met in the proof list or embedded, the walk ends:
\* with Some(item 1) when the leaf's path equals the whole remaining key and
\* with None otherwise; the walk examines no later proof node.
C18_LeafTerminates ==
    [][NodeUp => LeafStep(decode_rlp_list(winput.proof[walk.i + 1]), walk')]_vars

\* the walk state w is what the extension e, met with the key left from
\* cursor on, makes of the walk: None when the key does not start with its
\* path, else the cursor moved by the length of the path
ExtensionVerdict(e, cursor, w) ==
    IF ~StartsWith(RemainingFrom(cursor), decode_hp_path(e.items[1]).nibbles)
    THEN w.status = "none"
    ELSE w.key_index = cursor + Len(decode_hp_path(e.items[1]).nibbles)

\* the step from the current state to w treats an extension as C19 says: d
\* is the decoded proof node, itself an extension or the parent of an
\* embedded one
ExtensionStep(d, w) ==
    /\ IsLeafNode(d, FALSE) =>
          /\ ExtensionVerdict(d, walk.key_index, w)
          /\ (w.status # "none" /\ Len(d.items[2]) = 32) =>
                /\ w.status = "run"
                /\ w.expected_hash = d.items[2]
                /\ w.i = walk.i + 1
    /\ (BranchSelectsEmbedded(d)
          /\ IsLeafNode(decode_rlp_list(SelectedChild(d)), FALSE)) =>
          ExtensionVerdict(decode_rlp_list(SelectedChild(d)), walk.key_index + 1, w)

\* C19: at an extension node the walk returns None if the remaining key does
\* not start with the extension's path (a path longer than the remaining key
\* included); otherwise the cursor advances by exactly len(path) and the walk
\* continues with the child reference in item 1.
C19_ExtensionAdvances ==
    [][NodeUp => ExtensionStep(decode_rlp_list(winput.proof[walk.i + 1]), walk')]_vars

\* C20: a branch whose selected child reference is longer than 32 bytes makes
\* the walk fail: no walk that met such a reference ends in a verdict.
C20_OverlongChildFails ==
    (WalkDone /\ \E j \in 1..Len(walk.refs) : Len(walk.refs[j]) > 32) =>
        walk.status = "err"

\* d is an extension whose path is a prefix of the remaining key
ExtensionMatches(d) ==
    /\ IsLeafNode(d, FALSE)
    /\ StartsWith(RemainingFrom(walk.key_index), decode_hp_path(d.items[1]).nibbles)

\* the step from the current state to w treats item 1 of the matching
\* extension d as C21 says
ChildReferenceStep(d, w) ==
    ExtensionMatches(d) =>
        /\ Len(d.items[2]) = 32 =>
              /\ w.status = "run"
              /\ w.expected_hash = d.items[2]
        /\ (d.items[2] # <<>> /\ Len(d.items[2]) < 32) =>
              /\ w.status # "run"
              /\ w.i = walk.i + 1
        /\ (d.items[2] = <<>> \/ Len(d.items[2]) > 32) =>
              w.status = "err"

\* C21: at an extension node whose path matches, a child reference of
\* exactly 32 bytes is followed by hash, a non-empty one shorter than 32
\* bytes is processed inline, and an empty one or one longer than 32 bytes
\* makes the walk fail: it yields neither Some nor None.
C21_ExtensionChildReference ==
    [][NodeUp => ChildReferenceStep(decode_rlp_list(winput.proof[walk.i + 1]), walk')]_vars

\* WBranch0 with its embedded child 3 by hash
WBranch0ByHash ==
    BranchNode((1 :> ChildRef(WBranch1)) @@ (3 :> RlpStr(keccak256(WShortLeaf))), <<>>)

\* parents holding an embedded child, each with the same parent holding the
\* hash of that child instead: an extension over a leaf, an extension over a
\* branch, a branch over an extension, a branch over a leaf
EmbeddedForms ==
    {[embedded |-> WExt, byhash |-> WExtByHash, child |-> WTailLeaf],
     [embedded |-> WDeepExt, byhash |-> WDeepExtByHash, child |-> WTinyBranch],
     [embedded |-> WEmbExtBranch, byhash |-> WEmbExtByHash, child |-> WEmbExt],
     [embedded |-> WBranch0, byhash |-> WBranch0ByHash, child |-> WShortLeaf]}

\* what the caller of the walk sees: Some(value), None or an error
Verdict(w) == <<w.status, w.value>>

\* C22: an embedded child of a branch or an extension is processed as a
\* fresh node of any kind: the walk of a proof that ends in the parent gives
\* the verdict of the walk in which the parent holds the hash of the child
\* and the child is the next proof entry.
C22_EmbeddedAsFresh ==
    \A f \in EmbeddedForms :
        (WalkDone /\ winput.proof = <<f.embedded>>
            /\ winput.root = keccak256(f.embedded)) =>
            Verdict(walk) = Verdict(verify_mpt_proof(keccak256(f.byhash), winput.key,
                                                     <<f.byhash, f.child>>))

\* the branch d selects an embedded child, the proof list has a further
\* entry and that entry does not hash to what the embedded child hashes to
EmbeddedNotRepeated(d) ==
    /\ BranchSelectsEmbedded(d)
    /\ walk.i + 1 < Len(winput.proof)
    /\ keccak256(winput.proof[walk.i + 2]) # keccak256(SelectedChild(d))

\* the step to w consumes the embedded child inline: the walk is over, with
\* the verdict of the walk of the proof list cut after the branch
ConsumedInline(w) ==
    /\ w.status # "run"
    /\ Verdict(w) = Verdict(verify_mpt_proof(winput.root, winput.key,
                                              SubSeq(winput.proof, 1, walk.i + 1)))

\* C23: when a branch selects an embedded child and the proof list has
\* further entries, the walk goes on to the next entry only if that entry
\* hashes to the embedded reference; otherwise the embedded node is consumed
\* inline and the later entries have no influence on the verdict.
C23_EmbeddedBeforeNextEntry ==
    [][(NodeUp /\ EmbeddedNotRepeated(decode_rlp_list(winput.proof[walk.i + 1])))
          => ConsumedInline(walk')]_vars

\* the cursor of the walk state w is inside the key
CursorInKey(w) ==
    /\ w.key_nibbles = bytes_to_nibbles(winput.key)
    /\ Len(w.key_nibbles) = 2 * Len(winput.key)
    /\ w.key_index \in 0..Len(w.key_nibbles)

\* the step to w moved the cursor as the decoded node d allows: a branch by
\* one and only from a cursor inside the key, a 2-item node by the length of
\* its path and only when that path fits in the remaining key, nothing else
\* at all
CursorMove(d, w) ==
    \/ w.key_index = walk.key_index
    \/ /\ d.st = "ok"
       /\ Len(d.items) = 17
       /\ walk.key_index < Len(walk.key_nibbles)
       /\ w.key_index = walk.key_index + 1
    \/ /\ d.st = "ok"
       /\ Len(d.items) = 2
       /\ Len(decode_hp_path(d.items[1]).nibbles)
              <= Len(walk.key_nibbles) - walk.key_index
       /\ w.key_index = walk.key_index + Len(decode_hp_path(d.items[1]).nibbles)

CursorStep(w) ==
    /\ walk.status = "idle" => (w.status = "idle" \/ (w.key_index = 0 /\ CursorInKey(w)))
    /\ walk.status = "run" =>
          /\ CursorInKey(walk)
          /\ CursorInKey(w)
          /\ w.key_index >= walk.key_index
          /\ walk.i < Len(winput.proof) =>
                CursorMove(decode_rlp_list(winput.proof[walk.i + 1]), w)
          /\ walk.i >= Len(winput.proof) => w.key_index = walk.key_index

\* C28: the nibble cursor starts at 0, never decreases and never exceeds
\* len(key_nibbles), which is twice the key's byte length; a branch moves it
\* by one only from a cursor below len(key_nibbles) and an extension by
\* len(path) only when the path fits in the remaining key, so
\* key_nibbles[cursor..] and key_nibbles[cursor] are always in range.
C28_CursorInRange == [][CursorStep(walk')]_vars

\* the cursor reached the end of the key: an extension over all its nibbles,
\* then a branch that returns its value slot
C28_Witness ==
    /\ walk.status = "none"
    /\ winput.proof = <<WFullExt, WBranch1>>
    /\ walk.i = Len(winput.proof)
    /\ walk.key_index = Len(walk.key_nibbles)

(***************************************************************************)
(* Properties of the orchestrator (OrchSpec).                              *)
(***************************************************************************)

\* C7: verify_account_proof with state_root = EMPTY_ROOT_HASH, an empty
\* account_proof and all claimed fields at their defaults returns true, for
\* any address.
C7_EmptyAccountInclusion ==
    (/\ vout.op = "verify_account"
     /\ vinput.state_root = EMPTY_ROOT_HASH
     /\ vinput.proof \in {EmptyReply(a) : a \in Addresses}) =>
        vout.r = OkBool(TRUE)

\* the walk verify_account_proof is specified to make for the input
WalkedAccount ==
    verify_mpt_proof(vinput.state_root, keccak256(vinput.proof.address),
                     vinput.proof.account_proof)

FieldsAgree(account, proof) ==
    /\ account.nonce = proof.nonce
    /\ account.balance = proof.balance
    /\ account.storage_root = proof.storage_hash
    /\ account.code_hash = proof.code_hash

MatchesDecoded(account) ==
    account.st = "ok" => vout.r = OkBool(FieldsAgree(account, vinput.proof))

MatchesWalked(w) ==
    w.status = "some" => MatchesDecoded(AccountState_decode(w.value))

\* C11: when the walk of keccak256(address) returns Some(v) and v decodes as
\* an account record, verify_account_proof returns true if and only if the
\* four decoded fields equal the claimed nonce, balance, storage_hash and
\* code_hash.
C11_AccountFieldsCompared ==
    vout.op = "verify_account" => MatchesWalked(WalkedAccount)

\* the honest proof of Addr2 with another claimed code hash is refused
C11_Witness ==
    /\ vout.op = "verify_account"
    /\ vinput.state_root = HeadAt(1).state_root
    /\ vinput.proof = [HonestProof(Addr2, <<>>, 1) EXCEPT !.code_hash = EMPTY_CODE_HASH]
    /\ vout.r = OkBool(FALSE)

HasDefaults(proof) ==
    /\ proof.balance = U256_ZERO
    /\ proof.nonce = U256_ZERO
    /\ proof.storage_hash = EMPTY_ROOT_HASH
    /\ proof.code_hash = EMPTY_CODE_HASH

AbsentMeansDefaults(w) ==
    w.status = "none" => vout.r = OkBool(HasDefaults(vinput.proof))

\* C12: when the walk of keccak256(address) returns None, verify_account_proof
\* returns true if and only if the claimed balance and nonce are 0 and the
\* claimed hashes are EMPTY_ROOT_HASH and EMPTY_CODE_HASH, and false
\* otherwise.
C12_AbsentAccount ==
    vout.op = "verify_account" => AbsentMeansDefaults(WalkedAccount)

MalformedIsError(w) ==
    /\ (w.status = "some" /\ AccountState_decode(w.value).st # "ok") =>
           vout.r.st = "err"
    /\ w.status = "err" => vout.r.st = "err"

\* C13: a walked account value that is not a well-formed 4-item record makes
\* verify_account_proof fail with an error, not return false, just as an
\* error of the walk propagates as an error.
C13_MalformedAccountIsError ==
    vout.op = "verify_account" => MalformedIsError(WalkedAccount)

\* the storage entry the operation was applied to
Entry == vinput.proof.storage_proof[vout.k]

StorageInteger(v) ==
    IF v = <<>> THEN <<-1>>
    ELSE IF v[1] <= 127 THEN StripZeros(<<v[1]>>)
    ELSE IF v[1] <= 160 /\ Len(v) >= 1 + (v[1] - 128)
         THEN StripZeros(SubSeq(v, 2, 1 + (v[1] - 128)))
    ELSE <<-1>>

StorageAgrees(w) ==
    /\ w.status = "none" => vout.r = OkBool(Entry.value = U256_ZERO)
    /\ w.status = "some" =>
           (vout.r = OkBool(TRUE) <=> StorageInteger(w.value) = Entry.value)
    /\ w.status = "err" => vout.r.st = "err"

\* C15: verify_storage_proof with a non-empty proof walks keccak256(key)
\* under the storage root and returns true exactly when the walk agrees with
\* the claimed value: on None iff the claimed value is zero, on Some(v) iff
\* the integer decoded from v equals the claimed value; an error of the walk
\* propagates as an error.
C15_StorageValueCompared ==
    (vout.op = "verify_storage" /\ Entry.proof # <<>>) =>
        StorageAgrees(verify_mpt_proof(vinput.proof.storage_hash,
                                       keccak256(Entry.key), Entry.proof))

\* v is the RLP string of an integer of more than 32 bytes, in the short
\* form or in the long form with one length byte
Wide(v) ==
    /\ v # <<>>
    /\ \/ v[1] \in 161..183 /\ Len(v) = 1 + (v[1] - 128)
       \/ v[1] = 184 /\ Len(v) >= 2 /\ v[2] > 32 /\ Len(v) = 2 + v[2]

WideIsError(w) ==
    (w.status = "some" /\ Wide(w.value)) => vout.r.st = "err"

\* C25: a walked storage value whose integer encoding is wider than 32 bytes
\* is rejected by verify_storage_proof with an error: it is not accepted as
\* a value and the verification does not panic on it.
C25_OverWideRejected ==
    (vout.op = "verify_storage" /\ Entry.proof # <<>>) =>
        WideIsError(verify_mpt_proof(vinput.proof.storage_hash,
                                     keccak256(Entry.key), Entry.proof))

\* the results of verify_storage_proof for every entry of the input
StorageResults ==
    [k \in 1..Len(vinput.proof.storage_proof) |->
        verify_storage_proof(vinput.proof.storage_hash, vinput.proof.storage_proof[k])]

\* r is what the first entry of rs that is not Ok(true) makes of the result
FirstFailure(rs, r) ==
    LET bad == {k \in DOMAIN rs : rs[k] # OkBool(TRUE)} IN
    IF bad = {} THEN r = OkBool(TRUE)
    ELSE LET k == CHOOSE j \in bad : \A l \in bad : j <= l IN
         IF rs[k].st = "ok" THEN r = OkBool(FALSE) ELSE r = rs[k]

\* r is the result of the checks in order: a is the account check
InOrder(a, r) ==
    IF a.st # "ok" THEN r = a
    ELSE IF ~a.val THEN r = OkBool(FALSE)
    ELSE FirstFailure(StorageResults, r)

\* C16: verify_complete_proof returns true if and only if
\* verify_account_proof returns true and verify_storage_proof returns true
\* for every entry; the account check runs first, the first check that
\* returns false makes the result false and an error of a check that runs
\* propagates as an error.
C16_CompleteInOrder ==
    vout.op = "verify_complete" =>
        InOrder(verify_account_proof(vinput.state_root, vinput.proof), vout.r)

\* the first entry is refused and the second, which would fail with an
\* error, is not looked at
C16_Witness ==
    /\ vout.op = "verify_complete"
    /\ vinput.state_root = HeadAt(1).state_root
    /\ vinput.proof = [HonestProof(Addr2, <<Slot1, Slot2>>, 1) EXCEPT
                          !.storage_proof[1].value = Forged,
                          !.storage_proof[2].proof = <<OtherLeaf>>]
    /\ vout.r = OkBool(FALSE)

(***************************************************************************)
(* Properties of the gateway (Spec).                                       *)
(***************************************************************************)

Answered == req.pc = "done" /\ req.params_ok

HasResult == "result" \in DOMAIN resp

IsError(code) == "error" \in DOMAIN resp /\ resp.error.code = code

\* C1: with consensus verification enabled in the configuration, a read
\* handler puts a result in the response only after verification returned
\* true; with no authenticated head the request fails with -32603.
C1_EnabledMeansVerified ==
    (enabled /\ Answered /\ req.method \in ReadMethods) =>
        /\ HasResult => req.verify = "true"
        /\ req.consensus_proof.st = "none" => IsError(-32603)

\* C2: whenever verification of the fetched proof returns false or an
\* error, the read handler responds with a JSON-RPC error of code -32603 and
\* the response has no result, no proof and no consensus field.
C2_FailedVerificationIsError ==
    (Answered /\ req.method \in ReadMethods /\ req.verify \in {"false", "err"}) =>
        /\ IsError(-32603)
        /\ DOMAIN resp \cap {"result", "proof", "consensus"} = {}

C2_Witness ==
    /\ Answered
    /\ req.method = "eth_getStorageAt"
    /\ req.include_proof
    /\ req.verify = "false"
    /\ IsError(-32603)
    /\ ~HasResult

\* C3: a successful verified eth_getBalance or eth_getTransactionCount
\* response is built from a proof for the address the client asked for.
C3_ProofIsForRequestedAddress ==
    (/\ Answered
     /\ req.method \in {"eth_getBalance", "eth_getTransactionCount"}
     /\ req.verify = "true"
     /\ HasResult) =>
        req.proof_data.address = req.address

\* C4: a successful verified eth_getStorageAt response returns a value only
\* if a storage proof entry for the requested slot was verified.
C4_StorageProofIsForRequestedSlot ==
    (/\ Answered
     /\ req.method = "eth_getStorageAt"
     /\ req.verify = "true"
     /\ HasResult) =>
        /\ req.proof_data.storage_proof # <<>>
        /\ req.proof_data.storage_proof[1].key = req.slot

\* the proof verifies against the state root of a head the light client
\* has authenticated
VerifiesUnderSomeHead(proof_data) ==
    \E b \in 1..head.block_number :
        verify_complete_proof(HeadAt(b).state_root, proof_data) = OkBool(TRUE)

\* C5: with consensus available, the proof eth_getProof returns to the
\* client has been verified against the authenticated state root.
C5_ReturnedProofVerifies ==
    (/\ Answered
     /\ req.method = "eth_getProof"
     /\ consensus = "some"
     /\ HasResult) =>
        VerifiesUnderSomeHead(resp.result)

\* the verdict of the request is the one the state root of block b gives
VerifiedUnder(b) ==
    req.verify = VerifyTag(IF req.method = "eth_getStorageAt"
                           THEN verify_complete_proof(HeadAt(b).state_root, req.proof_data)
                           ELSE verify_account_proof(HeadAt(b).state_root, req.proof_data))

\* the request holds the head tuple of block b and uses it for the block
\* selector and for the verification
UsesHeadOf(b) ==
    /\ req.consensus_proof.val = HeadAt(b)
    /\ req.block = "latest" => req.query_block = HexBlock(b)
    /\ "proof_data" \in DOMAIN req => VerifiedUnder(b)

Flag(encoded) == encoded[1] \div 16

\* the nibbles C24 prescribes: the low nibble of byte 0 when the flag is
\* odd, then (high, low) of every following byte
PathNibbles(encoded) ==
    (IF Flag(encoded) % 2 = 1 THEN <<encoded[1] % 16>> ELSE <<>>)
    \o [k \in 1..(2 * (Len(encoded) - 1)) |->
          IF k % 2 = 1 THEN encoded[1 + (k + 1) \div 2] \div 16
                       ELSE encoded[1 + k \div 2] % 16]

\* C24: decode_hp_path returns (empty, false) for the empty input; for every
\* other input, with f the high nibble of byte 0, is_leaf is bit 1 of f
\* (f & 2 != 0) for all 16 values of f, and the nibbles are the low nibble of
\* byte 0 when bit 0 of f is set, followed by (high, low) of every later byte.
C24_HexPrefixFlags ==
    cout.op = "decode_hp_path" =>
        IF cinput = <<>> THEN cout.r = [nibbles |-> <<>>, is_leaf |-> FALSE]
        ELSE /\ cout.r.is_leaf = ((Flag(cinput) \div 2) % 2 = 1)
             /\ cout.r.nibbles = PathNibbles(cinput)

\* decode_storage_value returned the integer held in the bytes b
ReadAs(b) == cout.r = [st |-> "ok", val |-> StripZeros(b)]

\* C26: decode_storage_value reads v as a raw byte only when v is exactly
\* one byte of at most 0x7f: a longer v whose first byte is at most 0x7f is
\* not read as that first byte alone, and a v with a long-string or list
\* prefix (0xb8 and above) is not read as the raw big-endian integer v.
C26_LegacyShapeOnly ==
    (cout.op = "decode_storage_value" /\ cinput # <<>>) =>
        /\ (cinput[1] <= 127 /\ Len(cinput) = 1) => ReadAs(cinput)
        /\ (cinput[1] <= 127 /\ Len(cinput) > 1) => ~ReadAs(<<cinput[1]>>)
        /\ cinput[1] >= 184 => ~ReadAs(cinput)

\* the big-endian number in bytes is larger than n (n below 65536)
Exceeds(bytes, n) ==
    LET z == StripZeros(bytes) IN
    \/ Len(z) > 2
    \/ Len(z) = 2 /\ z[1] * 256 + z[2] > n
    \/ Len(z) = 1 /\ z[1] > n

\* the header of data declares a payload that runs past the end of data,
\* or is itself cut short; one case per prefix range (a single byte below
\* 0x80 declares nothing)
RunsPastEnd(data) ==
    \/ data = <<>>
    \/ data[1] \in 128..183 /\ Len(data) < 1 + (data[1] - 128)
    \/ data[1] \in 184..191 /\
          \/ Len(data) < 1 + (data[1] - 183)
          \/ Exceeds(SubSeq(data, 2, 1 + (data[1] - 183)), Len(data) - 1 - (data[1] - 183))
    \/ data[1] \in 192..247 /\ Len(data) < 1 + (data[1] - 192)
    \/ data[1] \in 248..255 /\
          \/ Len(data) < 1 + (data[1] - 247)
          \/ Exceeds(SubSeq(data, 2, 1 + (data[1] - 247)), Len(data) - 1 - (data[1] - 247))

\* what the decoder returned lies inside its input
InsideInput ==
    /\ cout.op = "decode_rlp_length" =>
          /\ cout.r.total <= Len(cinput)
          /\ Len(cout.r.content) <= cout.r.total
    /\ cout.op = "decode_rlp_item" =>
          /\ cout.r.len <= Len(cinput)
          /\ Len(cout.r.item) <= cout.r.len
    /\ cout.op = "decode_rlp_list" =>
          Len(Concat(cout.r.items)) <= Len(cinput)

\* C27: on every byte string, decode_rlp_length, decode_rlp_item and
\* decode_rlp_list return payloads that lie inside the input or fail with an
\* error, never otherwise; a declared length that runs past the end of the
\* input is an error in each of the five prefix ranges, the long-form
\* lengths next to 2^64 - 1 included.
C27_RlpLengthsBounded ==
    cout.op \in {"decode_rlp_length", "decode_rlp_item", "decode_rlp_list"} =>
        /\ cout.r.st \in {"ok", "err"}
        /\ cout.r.st = "ok" => InsideInput
        /\ (RunsPastEnd(cinput) /\ ~(cout.op = "decode_rlp_list" /\ cinput = <<>>)) =>
              cout.r.st = "err"

(***************************************************************************)
(* The causes of None and termination (WalkSpec).                          *)
(***************************************************************************)

\* the path of the 2-item node n, read as C24 prescribes: a leaf when bit 1
\* of the flag nibble is set, an extension otherwise
NodeIsLeaf(n) == n.items[1] # <<>> /\ (Flag(n.items[1]) \div 2) % 2 = 1

NodePath(n) == IF n.items[1] = <<>> THEN <<>> ELSE PathNibbles(n.items[1])

\* the path of the 2-item node n does not match the key left from cursor
\* on: a leaf's path is not that whole rest, an extension's path is not a
\* prefix of it
PathMismatch(n, cursor) ==
    /\ n.st = "ok"
    /\ Len(n.items) = 2
    /\ IF NodeIsLeaf(n) THEN NodePath(n) # RemainingFrom(cursor)
       ELSE ~StartsWith(RemainingFrom(cursor), NodePath(n))

\* one of the situations of C29 holds at the decoded proof node d, or at the
\* embedded node it leads to
NoneCause(d) ==
    /\ d.st = "ok"
    /\ \/ /\ Len(d.items) = 17
          /\ walk.key_index >= Len(walk.key_nibbles)
          /\ d.items[17] = <<>>
       \/ /\ Len(d.items) = 17
          /\ walk.key_index < Len(walk.key_nibbles)
          /\ SelectedChild(d) = <<>>
       \/ PathMismatch(d, walk.key_index)
       \/ /\ BranchSelectsEmbedded(d)
          /\ PathMismatch(decode_rlp_list(SelectedChild(d)), walk.key_index + 1)
       \/ /\ Len(d.items) = 2
          /\ ~NodeIsLeaf(d)
          /\ PathMismatch(decode_rlp_list(d.items[2]),
                          walk.key_index + Len(NodePath(d)))

\* C29: a walk over a non-empty proof returns None only when the branch
\* child slot selected by the next key nibble is empty, when the path of a
\* leaf or an extension does not match the remaining key, or when a branch
\* is reached with all key nibbles consumed and its value slot is empty.
C29_CausesOfNone ==
    [][(walk.status = "run" /\ walk'.status = "none") =>
          (NodeUp /\ NoneCause(decode_rlp_list(winput.proof[walk.i + 1])))]_vars

\* the loop iteration from the current state to w takes the next proof node,
\* and only that one, and ends in the next iteration, a verdict or an error;
\* with no node left the walk ends in an error
IterationEnds(w) ==
    IF walk.i < Len(winput.proof)
    THEN /\ w.i = walk.i + 1
         /\ w.status \in {"run", "some", "none", "err"}
    ELSE /\ w.i = walk.i
         /\ w.status = "err"

\* C30: verify_mpt_proof terminates on every finite proof list: it takes the
\* proof nodes one by one in list order, each at most once, and ends with a
\* verdict or an error after at most len(proof) nodes; decoding a node
\* terminates too, every iteration of the item loop of decode_rlp_list
\* consuming at least one byte.  Every iteration that starts must end, and
\* len(proof) - i decreases with each.
C30_WalkTerminates ==
    [][walk.status = "run" => (walk.i <= Len(winput.proof) /\ IterationEnds(walk'))]_vars
====
